---------------------------- MODULE Spec2Model ----------------------------
(***************************************************************************)
(* A model of backend/core/utils.py of score-my-food: the ingredient and   *)
(* nutrition normalisation and scoring engine.                             *)
(*                                                                         *)
(* Conventions.                                                            *)
(*  - A Python str is a sequence of one-character strings, so that slicing,*)
(*    searching, case folding and the regular expressions of the source    *)
(*    are computed character by character.                                 *)
(*  - A Python float is an exact rational.  The numbers of a nutrition     *)
(*    record are integers (whole g, mg, %), except energy_kj, which keeps  *)
(*    the thousandths kcal * 4.184 produces; the scoring arithmetic        *)
(*    (x / 188.0, x / 1.8, ... ) is carried out exactly on mixed numbers   *)
(*    i + n / Den, where Den is a common multiple of every divisor the     *)
(*    source uses.                                                         *)
(*  - An Optional[float] is None (the empty tuple) or Some(x) = <<x>>,    *)
(*    with Val(<<x>>) = x, so that None never compares with a number.      *)
(***************************************************************************)
EXTENDS Integers, Sequences, FiniteSets, TLC

VARIABLES
    pc,             \* which call is in flight and how far it has got
    arg_text,       \* the str argument of the call (ingredients_text, s, text)
    arg_nutrition,  \* NutritionProfile argument: eight Optional[float] fields
    arg_additives,  \* additives argument: list of AdditiveRecord {code, name, risk}
    arg_beverage,   \* beverage argument (bool)
    ret_score,      \* Optional[int]: what compute_health_score returned
    ret_grade,      \* what grade_from_score returned (None before)
    scan,           \* split_top_level_commas: locals of the character loop
    written,        \* the code mentions the label text was written from
    ret_list,       \* the list a text function returned (None before)
    arg_nutr,       \* coerce_nutrition: the raw nutriments dict
    ret_nutrition,  \* coerce_nutrition: the returned profile (None before)
    raised,         \* the exception that left the call ("" when none)
    arg_product,    \* analyze_product: the product dict p
    ret_result,     \* analyze_product: the returned dict (None before)
    args,           \* the arguments of a call of one of the other functions
    ret,            \* what that call returned (None before)
    heap            \* the module's tables and the dicts calls created

\* the variables of the scoring calls, and of the text functions
scoreVars == <<arg_nutrition, arg_additives, arg_beverage, ret_score, ret_grade>>
textVars == <<scan, written, ret_list>>
nutrVars == <<arg_nutr, ret_nutrition, raised>>
analyzeVars == <<arg_product, ret_result>>
callVars == <<args, ret, heap>>
vars == <<pc, arg_text, scoreVars, textVars, nutrVars, analyzeVars, callVars>>

ScoreIdle ==
    /\ arg_nutrition = <<>> /\ arg_additives = <<>> /\ arg_beverage = FALSE
    /\ ret_score = <<>> /\ ret_grade = <<>>
TextIdle == scan = <<>> /\ written = <<>> /\ ret_list = <<>>
NutrIdle == arg_nutr = <<>> /\ ret_nutrition = <<>> /\ raised = ""
AnalyzeIdle == arg_product = <<>> /\ ret_result = <<>>
CallIdle == args = <<>> /\ ret = <<>> /\ heap = <<>>
AllIdle == ScoreIdle /\ TextIdle /\ NutrIdle /\ AnalyzeIdle /\ CallIdle

None == <<>>
Some(x) == <<x>>
Val(o) == o[1]

(***************************************************************************)
(* Characters and Python str primitives                                    *)
(***************************************************************************)
LowerLetters == <<"a","b","c","d","e","f","g","h","i","j","k","l","m",
                  "n","o","p","q","r","s","t","u","v","w","x","y","z">>
UpperLetters == <<"A","B","C","D","E","F","G","H","I","J","K","L","M",
                  "N","O","P","Q","R","S","T","U","V","W","X","Y","Z">>
Digits == {"0","1","2","3","4","5","6","7","8","9"}

Range(f) == {f[i] : i \in DOMAIN f}

UpperSet == Range(UpperLetters)
LowerSet == Range(LowerLetters)
WordSet == UpperSet \cup LowerSet \cup Digits \cup {"_"}
\* \s of the re module, restricted to the characters of the model
Whitespace == {" ", "\t", "\n"}
ToLower == [c \in UpperSet |-> LowerLetters[CHOOSE i \in 1..26 : UpperLetters[i] = c]]
ToUpper == [c \in LowerSet |-> UpperLetters[CHOOSE i \in 1..26 : LowerLetters[i] = c]]

IsUpperCh(c) == c \in UpperSet
IsLowerCh(c) == c \in LowerSet
IsDigit(c) == c \in Digits
IsSpace(c) == c \in Whitespace
\* \w of the re module, restricted to the characters of the model
IsWordCh(c) == c \in WordSet

LowerCh(c) == IF c \in UpperSet THEN ToLower[c] ELSE c
UpperCh(c) == IF c \in LowerSet THEN ToUpper[c] ELSE c

\* str.lower(), str.upper()
Lower(s) == [i \in 1..Len(s) |-> LowerCh(s[i])]
Upper(s) == [i \in 1..Len(s) |-> UpperCh(s[i])]

\* the literal lit occurs in s starting at index i (1-based)
HasAt(s, i, lit) ==
    /\ i >= 1
    /\ i + Len(lit) - 1 <= Len(s)
    /\ \A k \in 1..Len(lit) : s[i + k - 1] = lit[k]

\* Python: lit in s
Contains(s, lit) == \E i \in 1..(Len(s) + 1) : HasAt(s, i, lit)

\* s[a..b] as a sequence (empty when a > b)
Slice(s, a, b) == IF a > b THEN <<>> ELSE SubSeq(s, a, b)

\* \b of the re module at the gap before index i (1 <= i <= Len(s)+1)
WordBoundary(s, i) ==
    LET before == i >= 2 /\ i - 1 <= Len(s) /\ IsWordCh(s[i - 1])
        after  == i >= 1 /\ i <= Len(s) /\ IsWordCh(s[i])
    IN  before # after

\* str.strip(chars): the set of characters to strip is given
RECURSIVE LStrip(_, _)
LStrip(s, cs) == IF s # <<>> /\ Head(s) \in cs THEN LStrip(Tail(s), cs) ELSE s
RECURSIVE RStrip(_, _)
RStrip(s, cs) == IF s # <<>> /\ s[Len(s)] \in cs
                 THEN RStrip(SubSeq(s, 1, Len(s) - 1), cs) ELSE s
Strip(s, cs) == RStrip(LStrip(s, cs), cs)

\* str.replace(old, new), leftmost non-overlapping occurrences
RECURSIVE Replace(_, _, _)
Replace(s, old, new) ==
    IF s = <<>> THEN <<>>
    ELSE IF HasAt(s, 1, old)
         THEN new \o Replace(SubSeq(s, Len(old) + 1, Len(s)), old, new)
         ELSE <<Head(s)>> \o Replace(Tail(s), old, new)

\* str.startswith
StartsWith(s, lit) == HasAt(s, 1, lit)

\* s[:n]
Prefix(s, n) == SubSeq(s, 1, IF Len(s) < n THEN Len(s) ELSE n)

\* a Python str literal as a sequence of characters
Chars(lit) == [i \in 1..Len(lit) |-> SubSeq(lit, i, i)]

(***************************************************************************)
(* Regular expressions (the subset of the re module the source uses).      *)
(* A pattern is a tree; MatchEnds(r, s, i) is the set of indices at which  *)
(* a match of r that starts at index i of s can end, so re.search(r, s)    *)
(* is the existence of a start with a non-empty set of ends.               *)
(***************************************************************************)
RLit(lit) == [t |-> "lit", s |-> Chars(lit)]
RSet(cs) == [t |-> "set", cs |-> cs]
RNotSet(cs) == [t |-> "nset", cs |-> cs]
RCat(rs) == [t |-> "cat", rs |-> rs]
RAlt(rs) == [t |-> "alt", rs |-> rs]
ROpt(r) == [t |-> "opt", r |-> r]
RStar(r) == [t |-> "star", r |-> r]
RPlus(r) == [t |-> "cat", rs |-> <<r, [t |-> "star", r |-> r]>>]
RWB == [t |-> "wb"]
\* \s, \d, [-\s]
RSpace == RSet(Whitespace)
RDigit == RSet(Digits)
RDashOrSpace == RSet({"-"} \cup Whitespace)

RECURSIVE MatchEnds(_, _, _)
MatchEnds(r, s, i) ==
    CASE r.t = "lit" -> IF HasAt(s, i, r.s) THEN {i + Len(r.s)} ELSE {}
      [] r.t = "set" -> IF i <= Len(s) /\ s[i] \in r.cs THEN {i + 1} ELSE {}
      [] r.t = "nset" -> IF i <= Len(s) /\ s[i] \notin r.cs THEN {i + 1} ELSE {}
      [] r.t = "wb" -> IF WordBoundary(s, i) THEN {i} ELSE {}
      [] r.t = "cat" ->
            IF r.rs = <<>> THEN {i}
            ELSE UNION { MatchEnds(RCat(Tail(r.rs)), s, j) :
                            j \in MatchEnds(Head(r.rs), s, i) }
      [] r.t = "alt" -> UNION { MatchEnds(r.rs[k], s, i) : k \in DOMAIN r.rs }
      [] r.t = "opt" -> {i} \cup MatchEnds(r.r, s, i)
      [] r.t = "star" ->
            {i} \cup UNION { MatchEnds(r, s, j) : j \in MatchEnds(r.r, s, i) \ {i} }

\* bool(re.search(r, s))
Search(r, s) == \E i \in 1..(Len(s) + 1) : MatchEnds(r, s, i) # {}

(***************************************************************************)
(* Exact arithmetic on mixed numbers  i + (n + m / Sub) / Den,             *)
(* 0 <= n < Den, 0 <= m < Sub.  The part m is needed only for an energy    *)
(* with thousandths divided by 188; every other term has m = 0.            *)
(***************************************************************************)
\* lcm(188, 9, 14, 13, 230, 6, 11, 5): every divisor of the scoring formula
Den == 194774580
\* 188000 divides Sub * Den: thousandths of a kJ divided by 188
Sub == 200

Q3(i, n, m) == [i |-> i, n |-> n, m |-> m]
Q(i, n) == Q3(i, n, 0)
QInt(k) == Q(k, 0)
\* the rational num / d, for d > 0 a divisor of Den
QFrac(num, d) == Q(num \div d, (num % d) * (Den \div d))
QNorm3(i, n, m) ==
    Q3(i + ((n + (m \div Sub)) \div Den), (n + (m \div Sub)) % Den, m % Sub)
QNorm(i, n) == QNorm3(i, n, 0)
QAdd(a, b) == QNorm3(a.i + b.i, a.n + b.n, a.m + b.m)
QNeg(a) ==
    IF a.m # 0 THEN Q3(-a.i - 1, Den - a.n - 1, Sub - a.m)
    ELSE IF a.n # 0 THEN Q(-a.i - 1, Den - a.n)
    ELSE Q(-a.i, 0)
QSub(a, b) == QAdd(a, QNeg(b))
QLt(a, b) ==
    \/ a.i < b.i
    \/ a.i = b.i /\ a.n < b.n
    \/ a.i = b.i /\ a.n = b.n /\ a.m < b.m
QLe(a, b) == ~QLt(b, a)
QMin(a, b) == IF QLt(b, a) THEN b ELSE a
QMax(a, b) == IF QLt(a, b) THEN b ELSE a
\* a * 2
QDouble(a) == QNorm3(2 * a.i, 2 * a.n, 2 * a.m)
\* a * 1.8 = a * 9 / 5, for a with a.m = 0 and a.n a multiple of 5 (the
\* positive points)
QTimes18(a) == QAdd(QFrac(9 * a.i, 5), QNorm(0, (9 * a.n) \div 5))
\* Python int(round(x)): round half to even
QRound(a) ==
    IF 2 * a.n < Den THEN a.i
    ELSE IF 2 * a.n > Den \/ a.m # 0 THEN a.i + 1
    ELSE IF a.i % 2 = 0 THEN a.i ELSE a.i + 1

\* a float of kJ with three decimals: whole + milli / 1000, 0 <= milli < 1000
Kj(whole, milli) == [whole |-> whole, milli |-> milli]

\* milli / 188000 = milli * (Den / 940) / (Sub * Den), for 0 <= milli < 1000
MilliOver188(milli) ==
    LET unit == Den \div 940
    IN  Q3(0, (milli \div Sub) * unit + ((milli % Sub) * unit) \div Sub,
           ((milli % Sub) * unit) % Sub)

\* energy_kj / 188.0
KjOver188(energy_kj) ==
    QAdd(QFrac(energy_kj.whole, 188), MilliOver188(energy_kj.milli))

(***************************************************************************)
(* Static data                                                             *)
(***************************************************************************)
\* Codes that behave like MSG
MSG_LIKE == { Chars("621"), Chars("622"), Chars("623"), Chars("624"),
              Chars("625"), Chars("627"), Chars("631") }

SYNTHETIC_COLOURS == { Chars("E102"), Chars("E104"), Chars("E110"),
                       Chars("E122"), Chars("E124"), Chars("E129") }
NITRITES == { Chars("E249"), Chars("E250"), Chars("E251"), Chars("E252") }
ANTIOXIDANTS == { Chars("E319"), Chars("E320"), Chars("E321") }

(***************************************************************************)
(* Scoring (0-100)                                                         *)
(***************************************************************************)
\* the patterns of the scoring functions, applied to lower-cased text
PalmRe == RCat(<<RWB, RLit("palm"),
                 ROpt(RAlt(<<RLit("olein"), RLit(" oil")>>)), RWB>>)
FriedRe == RCat(<<RWB,
                  RAlt(<<RLit("fried"),
                         RCat(<<RLit("deep"), ROpt(RDashOrSpace), RLit("fried")>>),
                         RLit("fried snack")>>),
                  RWB>>)
ExtrudedRe == RCat(<<RWB, RAlt(<<RLit("extruded"), RLit("puffed")>>), RWB>>)
EnhancerRe == RCat(<<RWB,
                     RAlt(<<RCat(<<RLit("flavo"), ROpt(RLit("u")), RLit("r"),
                                   RStar(RSpace), RLit("enhancer")>>),
                            RLit("enhanced with"),
                            RLit("taste enhancer")>>),
                     RWB>>)
ArtFlavourRe == RCat(<<RWB,
                       RAlt(<<RLit("artificial"),
                              RCat(<<RLit("nature"), RStar(RDashOrSpace),
                                     RLit("identical")>>)>>),
                       RPlus(RSpace), RLit("flavo"), ROpt(RLit("u")), RLit("r")>>)
ArtColourRe == RAlt(<<RCat(<<RWB,
                             RAlt(<<RLit("artificial"), RLit("synthetic")>>),
                             RPlus(RSpace), RLit("colo"), ROpt(RLit("u")),
                             RLit("r"), RWB>>),
                      RCat(<<RLit("caramel colo"), ROpt(RLit("u")), RLit("r")>>)>>)
FriedExtrudedRe == RCat(<<RWB,
                          RAlt(<<RLit("fried"),
                                 RCat(<<RLit("deep"), ROpt(RDashOrSpace),
                                        RLit("fried")>>),
                                 RLit("extruded"), RLit("puffed")>>),
                          RWB>>)
MsgRe == RCat(<<RWB, RAlt(<<RLit("msg"), RLit("monosodium glutamate")>>), RWB>>)
PalmCapRe == RCat(<<RWB, RAlt(<<RLit("palm oil"), RLit("palmolein")>>), RWB>>)

\* any(w in text for w in words)
ContainsAny(text, words) == \E k \in DOMAIN words : Contains(text, Chars(words[k]))

\* mutant: the sugar term is subtracted from the negative points
Mutant_negative_points_SugarSign(energy_kj, sugar_g, sat_fat_g, sodium_mg, beverage) ==
    LET e  == IF energy_kj # None
              THEN QMin(QInt(10), QMax(QInt(0), KjOver188(Val(energy_kj))))
              ELSE QInt(0)
        su == IF sugar_g # None
              THEN IF beverage
                   THEN QMin(QInt(10), QFrac(5 * Val(sugar_g), 9))
                   ELSE QMin(QInt(10), QFrac(5 * Val(sugar_g), 14))
              ELSE QInt(0)
        sf == IF sat_fat_g # None
              THEN QMin(QInt(10), QFrac(10 * Val(sat_fat_g), 13))
              ELSE QInt(0)
        so == IF sodium_mg # None
              THEN QMin(QInt(10), QFrac(Val(sodium_mg), 230))
              ELSE QInt(0)
    IN  QMin(QInt(30), QAdd(QAdd(QSub(e, su), sf), so))

_negative_points(energy_kj, sugar_g, sat_fat_g, sodium_mg, beverage) ==
    LET e  == IF energy_kj # None
              THEN QMin(QInt(10), QMax(QInt(0), KjOver188(Val(energy_kj))))
              ELSE QInt(0)
        su == IF sugar_g # None
              THEN IF beverage
                   THEN QMin(QInt(10), QFrac(5 * Val(sugar_g), 9))    \* sugar_g / 1.8
                   ELSE QMin(QInt(10), QFrac(5 * Val(sugar_g), 14))   \* sugar_g / 2.8
              ELSE QInt(0)
        sf == IF sat_fat_g # None
              THEN QMin(QInt(10), QFrac(10 * Val(sat_fat_g), 13))     \* sat_fat_g / 1.3
              ELSE QInt(0)
        so == IF sodium_mg # None
              THEN QMin(QInt(10), QFrac(Val(sodium_mg), 230))
              ELSE QInt(0)
    IN  QMin(QInt(30), QAdd(QAdd(QAdd(e, su), sf), so))

_positive_points(fiber_g, protein_g, fruit_pct) ==
    LET f  == IF fiber_g # None
              THEN QMin(QInt(6), QFrac(5 * Val(fiber_g), 6))          \* fiber_g / 1.2
              ELSE QInt(0)
        p  == IF protein_g # None
              THEN QMin(QInt(5), QFrac(5 * Val(protein_g), 11))       \* protein_g / 2.2
              ELSE QInt(0)
        fr == IF fruit_pct = None THEN 0
              ELSE IF Val(fruit_pct) >= 80 THEN 5
              ELSE IF Val(fruit_pct) >= 60 THEN 4
              ELSE IF Val(fruit_pct) >= 40 THEN 3
              ELSE IF Val(fruit_pct) >= 20 THEN 2
              ELSE IF Val(fruit_pct) >= 5 THEN 1
              ELSE 0
    IN  QMin(QInt(16), QAdd(QAdd(f, p), QInt(fr)))

\* code.replace("INS", "").replace("E", "")
BareCode(code) == Replace(Replace(code, Chars("INS"), <<>>), Chars("E"), <<>>)

\* the penalty one additive record adds in _additive_penalties
AdditivePenaltyOf(a) ==
    LET tier == Lower(a.risk)
        code == Replace(Upper(a.code), Chars(" "), <<>>)
        base == IF tier = Chars("avoid") THEN 10
                ELSE IF tier = Chars("moderate") THEN 5
                ELSE IF tier = Chars("caution") THEN 4
                ELSE IF tier = Chars("generally safe") THEN 0
                ELSE IF tier = Chars("unknown") THEN 1
                ELSE 0
    IN  base
        + (IF Prefix(BareCode(code), 3) \in MSG_LIKE THEN 2 ELSE 0)
        + (IF code \in SYNTHETIC_COLOURS THEN 5 ELSE 0)
        + (IF code \in NITRITES THEN 10 ELSE 0)
        + (IF code \in ANTIOXIDANTS THEN 8 ELSE 0)

RECURSIVE SumPenalties(_)
SumPenalties(additives) ==
    IF additives = <<>> THEN 0
    ELSE AdditivePenaltyOf(Head(additives)) + SumPenalties(Tail(additives))

IntMin(a, b) == IF b < a THEN b ELSE a
IntMax(a, b) == IF b > a THEN b ELSE a

_additive_penalties(additives) == IntMin(SumPenalties(additives), 36)

_processing_penalty(text, flags) ==
    LET t == Lower(text)
        p == (IF flags.fried THEN 5 ELSE 0)
             + (IF flags.extruded THEN 4 ELSE 0)
             + (IF flags.palmOil THEN 4 ELSE 0)
             + (IF Search(EnhancerRe, t) THEN 2 ELSE 0)
    IN  IntMin(12, p)

\* list of <<label, penalty>>
_keyword_penalties(ingredients_text) ==
    LET text == Lower(ingredients_text)
    IN  (IF Search(PalmRe, text) THEN << <<"Palm oil", -6>> >> ELSE <<>>)
     \o (IF Contains(text, Chars("hydrogenated"))
            \/ Contains(text, Chars("partially hydrogenated"))
         THEN << <<"Hydrogenated/partially hydrogenated oils", -20>> >> ELSE <<>>)
     \o (IF ContainsAny(text, <<"sugar", "glucose", "fructose", "hfcs",
                                "corn syrup", "invert syrup", "malt syrup",
                                "dextrose">>)
         THEN << <<"Added sugars/syrups", -8>> >> ELSE <<>>)
     \o (IF Contains(text, Chars("salt")) \/ Contains(text, Chars("sodium chloride"))
         THEN << <<"Added salt", -4>> >> ELSE <<>>)
     \o (IF ContainsAny(text, <<"acesulfame", "sucralose", "aspartame",
                                "saccharin", "cyclamate", "neotame", "advantame">>)
         THEN << <<"Artificial sweeteners", -5>> >> ELSE <<>>)
     \o (IF Search(ArtFlavourRe, text)
         THEN << <<"Artificial flavour", -5>> >> ELSE <<>>)
     \o (IF Search(ArtColourRe, text)
         THEN << <<"Added colours", -5>> >> ELSE <<>>)
     \o (IF Search(FriedExtrudedRe, text)
         THEN << <<"Fried/extruded processing", -6>> >> ELSE <<>>)
     \o (IF Search(MsgRe, text) THEN << <<"MSG", -6>> >> ELSE <<>>)

RECURSIVE SumKeywordPenalties(_)
SumKeywordPenalties(ps) ==
    IF ps = <<>> THEN 0 ELSE Head(ps)[2] + SumKeywordPenalties(Tail(ps))

\* 78.0 - (neg * 2.0) + (pos * 1.8)
BaseScore(nutrition, beverage) ==
    LET neg == _negative_points(nutrition.energy_kj, nutrition.sugar_g,
                                nutrition.sat_fat_g, nutrition.sodium_mg, beverage)
        pos == _positive_points(nutrition.fiber_g, nutrition.protein_g,
                                nutrition.fruit_pct)
    IN  QAdd(QSub(QInt(78), QDouble(neg)), QTimes18(pos))

\* mutant: the additive step subtracts the whole of add_pen
MutantAdditiveStep_NoCap(s, additives) ==
    QSub(s, QInt(_additive_penalties(additives)))

\* the additive step: s -= min(28.0, add_pen)
AdditiveStep(s, additives) ==
    QSub(s, QInt(IntMin(28, _additive_penalties(additives))))

\* the processing step: s -= min(10.0, proc_pen)
ProcessingStep(s, ingredients_text) ==
    LET low == Lower(ingredients_text)
        proc_pen == _processing_penalty(ingredients_text,
                        [palmOil  |-> Search(PalmRe, low),
                         fried    |-> Search(FriedRe, low),
                         extruded |-> Search(ExtrudedRe, low)])
    IN  QSub(s, QInt(IntMin(10, proc_pen)))

\* the keyword penalties: for _label, pen in ...: s += pen
KeywordStep(s, ingredients_text) ==
    QAdd(s, QInt(SumKeywordPenalties(_keyword_penalties(ingredients_text))))

\* if (nutrition.get("trans_fat_g") or 0) > 0.1: s -= 18
TransFatStep(s, nutrition) ==
    LET tf == IF nutrition.trans_fat_g = None THEN 0 ELSE Val(nutrition.trans_fat_g)
    IN  IF 10 * tf > 1 THEN QSub(s, QInt(18)) ELSE s

\* { (a.get("code") or "").upper() for a in additives }
AdditiveCodes(additives) == { Upper(additives[k].code) : k \in DOMAIN additives }

HasAvoid(additives) ==
    \E k \in DOMAIN additives : Lower(additives[k].risk) = Chars("avoid")

\* mutant: the cap for "avoid" additives is 55
MutantAvoidCap_55(s, additives) ==
    IF HasAvoid(additives) THEN QMin(s, QInt(55)) ELSE s

\* s = min(s, 50) when an "avoid" additive is present
AvoidCap(s, additives) ==
    IF HasAvoid(additives) THEN QMin(s, QInt(50)) ELSE s

\* s = min(s, 40) when a nitrite/nitrate code is present
NitriteCap(s, additives) ==
    IF \E c \in NITRITES : c \in AdditiveCodes(additives)
    THEN QMin(s, QInt(40)) ELSE s

\* s = min(s, 58) when a synthetic colour code is present
ColourCap(s, additives) ==
    IF \E c \in SYNTHETIC_COLOURS : c \in AdditiveCodes(additives)
    THEN QMin(s, QInt(58)) ELSE s

\* s -= 5 on an MSG mention or an MSG-family code
MsgStep(s, additives, ingredients_text) ==
    IF Search(MsgRe, Lower(ingredients_text))
       \/ \E c \in AdditiveCodes(additives) : Prefix(BareCode(c), 3) \in MSG_LIKE
    THEN QSub(s, QInt(5)) ELSE s

\* s = min(s, 62) on a palm oil mention
PalmCap(s, ingredients_text) ==
    IF Search(PalmCapRe, Lower(ingredients_text)) THEN QMin(s, QInt(62)) ELSE s

\* the hard caps for red flags, in source order
HardCaps(s, additives, ingredients_text) ==
    PalmCap(MsgStep(ColourCap(NitriteCap(AvoidCap(s, additives), additives),
                              additives),
                    additives, ingredients_text),
            ingredients_text)

\* the six core nutrients that are not None
KnownCore(nutrition) ==
    { f \in {"energy_kj", "sugar_g", "sat_fat_g", "sodium_mg", "fiber_g", "protein_g"} :
        nutrition[f] # None }

\* mutant: the guardrail applies only when no core nutrient is known
MutantSparseGuardrail_NoneKnown(s, nutrition) ==
    IF Cardinality(KnownCore(nutrition)) < 1
    THEN QMax(QInt(35), QMin(QInt(65), s))
    ELSE s

\* if len(known) <= 1: s = max(35, min(65, s))
SparseGuardrail(s, nutrition) ==
    IF Cardinality(KnownCore(nutrition)) <= 1
    THEN QMax(QInt(35), QMin(QInt(65), s))
    ELSE s

\* mutant: the result is rounded but not clamped
MutantFinalClamp_NoClamp(s) == QRound(s)

\* max(0, min(100, int(round(s))))
FinalClamp(s) == IntMax(0, IntMin(100, QRound(s)))

compute_health_score(nutrition, additives, ingredients_text, beverage) ==
    LET s0 == BaseScore(nutrition, beverage)
        s1 == AdditiveStep(s0, additives)
        s2 == ProcessingStep(s1, ingredients_text)
        s3 == KeywordStep(s2, ingredients_text)
        s4 == TransFatStep(s3, nutrition)
        s5 == HardCaps(s4, additives, ingredients_text)
        s6 == SparseGuardrail(s5, nutrition)
    IN  FinalClamp(s6)

\* mutant: the A+ cutoff is exclusive
Mutant_grade_from_score_ExclusiveTop(score) ==
    IF score > 85 THEN "A+"
    ELSE IF score >= 75 THEN "A"
    ELSE IF score >= 65 THEN "B"
    ELSE IF score >= 50 THEN "C"
    ELSE IF score >= 35 THEN "D"
    ELSE "E"

grade_from_score(score) ==
    IF score >= 85 THEN "A+"
    ELSE IF score >= 75 THEN "A"
    ELSE IF score >= 65 THEN "B"
    ELSE IF score >= 50 THEN "C"
    ELSE IF score >= 35 THEN "D"
    ELSE "E"

(***************************************************************************)
(* The scoring calls: compute_health_score on a bounded family of inputs,  *)
(* then grade_from_score on its result.                                    *)
(***************************************************************************)
\* longest additive list handed to compute_health_score
MaxAdditives == 2

EmptyNutrition ==
    [energy_kj |-> None, sugar_g |-> None, sodium_mg |-> None, sat_fat_g |-> None,
     trans_fat_g |-> None, fiber_g |-> None, protein_g |-> None, fruit_pct |-> None]

Opt(S) == {None} \cup {Some(x) : x \in S}

\* sample values of each field, chosen around the caps of the formula
SugarValues == {-4, 0, 12, 30}
FiberValues == {0, 3, 8}
\* energy, sodium and saturated fat are given together, fruit_pct with protein;
\* 899.56 kJ is what coerce_nutrition makes of 215 kcal
Profiles ==
    { p \in [energy_kj : Opt({Kj(1900, 0), Kj(899, 560)}), sugar_g : Opt(SugarValues),
             sodium_mg : Opt({2300}), sat_fat_g : Opt({13}),
             trans_fat_g : Opt({1}), fiber_g : Opt(FiberValues),
             protein_g : Opt({11}), fruit_pct : Opt({85})] :
        /\ (p.sodium_mg = None) = (p.sat_fat_g = None)
        /\ (p.energy_kj = None) = (p.sat_fat_g = None)
        /\ (p.fruit_pct = None) = (p.protein_g = None) }

Additive(code, name, risk) ==
    [code |-> Chars(code), name |-> Chars(name), risk |-> Chars(risk)]

SampleAdditives ==
    { Additive("E102", "Tartrazine", "avoid"),
      Additive("E250", "Sodium nitrite", "avoid"),
      Additive("E621", "Monosodium glutamate (MSG)", "caution") }

RECURSIVE ListsUpTo(_, _)
ListsUpTo(S, n) ==
    IF n = 0 THEN {<<>>}
    ELSE LET shorter == ListsUpTo(S, n - 1)
         IN  shorter \cup { Append(l, x) : l \in shorter, x \in S }

AdditiveLists == ListsUpTo(SampleAdditives, MaxAdditives)

ScoreTexts ==
    { <<>>,
      Chars("Water, Sugar, Salt"),
      Chars("palm oil, msg, fried, hydrogenated, sugar, salt") }

ScoreInit ==
    /\ pc = "score_call"
    /\ arg_nutrition \in Profiles
    /\ arg_additives \in AdditiveLists
    /\ arg_text \in ScoreTexts
    /\ arg_beverage \in BOOLEAN
    /\ ret_score = None
    /\ ret_grade = None
    /\ CallIdle
    /\ TextIdle
    /\ NutrIdle
    /\ AnalyzeIdle

ComputeHealthScore ==
    /\ pc = "score_call"
    /\ ret_score' = Some(compute_health_score(arg_nutrition, arg_additives, arg_text, arg_beverage))
    /\ pc' = "scored"
    /\ UNCHANGED <<callVars, arg_nutrition, arg_additives, arg_text, arg_beverage, ret_grade, textVars, nutrVars, analyzeVars>>

GradeFromScore ==
    /\ pc \in {"scored", "grade_call"}
    /\ ret_grade' = Chars(grade_from_score(Val(ret_score)))
    /\ pc' = "graded"
    /\ UNCHANGED <<callVars, arg_nutrition, arg_additives, arg_text, arg_beverage, ret_score, textVars, nutrVars, analyzeVars>>

ScoreNext == ComputeHealthScore \/ GradeFromScore

SpecScore == ScoreInit /\ [][ScoreNext]_vars

(***************************************************************************)
(* Claims about compute_health_score (checked under SpecScore)             *)
(***************************************************************************)
Scored == ret_score # None

\* the score the same call returns with one nutrition field replaced
ScoreWith(field, v) ==
    compute_health_score([arg_nutrition EXCEPT ![field] = Some(v)],
                         arg_additives, arg_text, arg_beverage)

\* C1: for every nutrition profile, additive list, ingredients text and
\* beverage flag, compute_health_score returns an integer s with 0 <= s <= 100.
C1_ScoreInRange == Scored => Val(ret_score) \in 0..100

\* C1 witness: a call whose unclamped value lies above 100 returned 100.
C1_Witness ==
    /\ Scored
    /\ QLt(QInt(101), BaseScore(arg_nutrition, arg_beverage))
    /\ arg_additives = <<>> /\ arg_text = <<>>
    /\ Cardinality(KnownCore(arg_nutrition)) >= 2
    /\ Val(ret_score) = 100

\* C3: whenever at most one of the six core nutrients is known, the score is
\* in [35, 65], whatever the known value, additives, text, trans fat, fruit
\* percentage and beverage flag are.
C3_SparseGuardrail ==
    (Scored /\ Cardinality({ f \in {"energy_kj", "sugar_g", "sat_fat_g",
                                    "sodium_mg", "fiber_g", "protein_g"} :
                                arg_nutrition[f] # None }) <= 1)
        => (35 <= Val(ret_score) /\ Val(ret_score) <= 65)

\* C3 witness: exactly one core nutrient is known, red flags are present, and
\* the guardrail lifted the score to 35.
C3_Witness ==
    /\ Scored
    /\ arg_nutrition.sugar_g = Some(30)
    /\ \A f \in {"energy_kj", "sat_fat_g", "sodium_mg", "fiber_g", "protein_g"} :
            arg_nutrition[f] = None
    /\ arg_nutrition.trans_fat_g = Some(1)
    /\ Len(arg_additives) = 2
    /\ arg_text # <<>>
    /\ Val(ret_score) = 35

\* C4: if the additive list holds a record whose risk is "avoid", the score
\* is <= 50 for every profile, text and beverage flag.
C4_AvoidCap ==
    (Scored /\ \E k \in DOMAIN arg_additives : arg_additives[k].risk = Chars("avoid"))
        => Val(ret_score) <= 50

\* C4 witness: a profile that scores at least 95 without additives returned
\* exactly 50 with an "avoid" additive in the list.
C4_Witness ==
    /\ Scored
    /\ \E k \in DOMAIN arg_additives : arg_additives[k].risk = Chars("avoid")
    /\ compute_health_score(arg_nutrition, <<>>, arg_text, arg_beverage) >= 95
    /\ Val(ret_score) = 50

\* C5: of two calls that differ only in sugar_g (both known) the one with the
\* larger sugar_g never scores higher; of two calls that differ only in
\* fiber_g (both known) the one with the larger fiber_g never scores lower.
C5_Monotone ==
    pc = "scored" =>
        /\ arg_nutrition.sugar_g # None =>
             \A v \in SugarValues :
                v > Val(arg_nutrition.sugar_g)
                    => ScoreWith("sugar_g", v) <= Val(ret_score)
        /\ arg_nutrition.fiber_g # None =>
             \A v \in FiberValues :
                v > Val(arg_nutrition.fiber_g)
                    => ScoreWith("fiber_g", v) >= Val(ret_score)

\* C5 witness: a scored call for which more sugar strictly lowers the score
\* and more fiber strictly raises it.
C5_Witness ==
    /\ pc = "scored"
    /\ arg_nutrition.sugar_g = Some(0)
    /\ arg_nutrition.fiber_g = Some(0)
    /\ ScoreWith("sugar_g", 12) < Val(ret_score)
    /\ ScoreWith("fiber_g", 3) > Val(ret_score)

(***************************************************************************)
(* split_top_level_commas: the character loop, one step per character      *)
(***************************************************************************)
\* mutant: every comma splits, whatever the depth
MutantSplitStep_AnyComma(st, ch) ==
    LET depth == IF ch = "(" THEN st.depth + 1
                 ELSE IF ch = ")" THEN IntMax(0, st.depth - 1)
                 ELSE st.depth
    IN  IF ch = ","
        THEN LET part == Strip(st.buf, Whitespace)
             IN  [i |-> st.i + 1, depth |-> depth, buf |-> <<>>,
                  parts |-> IF part # <<>> THEN Append(st.parts, part) ELSE st.parts]
        ELSE [i |-> st.i + 1, depth |-> depth, buf |-> Append(st.buf, ch),
              parts |-> st.parts]

\* mutant: ")" always lowers the depth, below zero too
MutantSplitStep_Unclamped(st, ch) ==
    LET depth == IF ch = "(" THEN st.depth + 1
                 ELSE IF ch = ")" THEN st.depth - 1
                 ELSE st.depth
    IN  IF ch = "," /\ depth = 0
        THEN LET part == Strip(st.buf, Whitespace)
             IN  [i |-> st.i + 1, depth |-> depth, buf |-> <<>>,
                  parts |-> IF part # <<>> THEN Append(st.parts, part) ELSE st.parts]
        ELSE [i |-> st.i + 1, depth |-> depth, buf |-> Append(st.buf, ch),
              parts |-> st.parts]

\* parts, buf, depth = [], [], 0   (i counts the characters consumed)
SplitStart == [i |-> 0, depth |-> 0, buf |-> <<>>, parts |-> <<>>]

\* one iteration of "for ch in s"
SplitStep(st, ch) ==
    LET depth == IF ch = "(" THEN st.depth + 1
                 ELSE IF ch = ")" THEN IntMax(0, st.depth - 1)
                 ELSE st.depth
    IN  IF ch = "," /\ depth = 0
        THEN LET part == Strip(st.buf, Whitespace)
             IN  [i |-> st.i + 1, depth |-> depth, buf |-> <<>>,
                  parts |-> IF part # <<>> THEN Append(st.parts, part) ELSE st.parts]
        ELSE [i |-> st.i + 1, depth |-> depth, buf |-> Append(st.buf, ch),
              parts |-> st.parts]

\* after the loop: the last buffer is a part when it is not blank
SplitFinish(st) ==
    LET last == Strip(st.buf, Whitespace)
    IN  IF last # <<>> THEN Append(st.parts, last) ELSE st.parts

RECURSIVE SplitLoop(_, _)
SplitLoop(st, s) ==
    IF st.i >= Len(s) THEN st ELSE SplitLoop(SplitStep(st, s[st.i + 1]), s)

split_top_level_commas(s) == SplitFinish(SplitLoop(SplitStart, s))

\* longest generated input of split_top_level_commas
MaxSplitLen == 5
SplitAlphabet == {"a", ",", "(", ")", " "}

RECURSIVE StringsUpTo(_, _)
StringsUpTo(A, n) ==
    IF n = 0 THEN {<<>>}
    ELSE LET shorter == StringsUpTo(A, n - 1)
         IN  shorter \cup { Append(w, c) : w \in shorter, c \in A }

SplitInputs ==
    StringsUpTo(SplitAlphabet, MaxSplitLen)
        \cup { Chars("a, b(c, d), e"), Chars("x), y (1, 2), (z, w") }

SplitInit ==
    /\ pc = "split_scan"
    /\ arg_text \in SplitInputs
    /\ scan = SplitStart
    /\ written = <<>>
    /\ ret_list = None
    /\ CallIdle
    /\ ScoreIdle
    /\ NutrIdle
    /\ AnalyzeIdle

SplitScanChar ==
    /\ pc = "split_scan"
    /\ scan.i < Len(arg_text)
    /\ scan' = SplitStep(scan, arg_text[scan.i + 1])
    /\ UNCHANGED <<callVars, pc, arg_text, written, ret_list, scoreVars, nutrVars, analyzeVars>>

SplitReturn ==
    /\ pc = "split_scan"
    /\ scan.i >= Len(arg_text)
    /\ ret_list' = SplitFinish(scan)
    /\ pc' = "split_done"
    /\ UNCHANGED <<callVars, arg_text, scan, written, scoreVars, nutrVars, analyzeVars>>

SplitNext == SplitScanChar \/ SplitReturn

SpecSplit == SplitInit /\ [][SplitNext]_vars

(***************************************************************************)
(* Claims about split_top_level_commas (checked under SpecSplit)           *)
(***************************************************************************)
CountIn(s, a, b, ch) == Cardinality({ k \in a..b : s[k] = ch })

\* the comma at index i of s has no unclosed "(" before it: no stretch of
\* text ending just before i holds more "(" than ")"
TopLevelComma(s, i) ==
    /\ s[i] = ","
    /\ \A j \in 1..(i - 1) : CountIn(s, j, i - 1, "(") <= CountIn(s, j, i - 1, ")")

\* the segments of s between consecutive cut points, first to last
RECURSIVE SegmentsFrom(_, _, _)
SegmentsFrom(s, from, cuts) ==
    LET later == { c \in cuts : c >= from }
    IN  IF later = {} THEN << Slice(s, from, Len(s)) >>
        ELSE LET c == CHOOSE x \in later : \A y \in later : x <= y
             IN  << Slice(s, from, c - 1) >> \o SegmentsFrom(s, c + 1, cuts)

Trimmed(w) == w # <<>> /\ w[1] \notin Whitespace /\ w[Len(w)] \notin Whitespace

\* the segments with blanks trimmed and empty ones dropped, order kept
RECURSIVE TrimAndDrop(_)
TrimAndDrop(segs) ==
    IF segs = <<>> THEN <<>>
    ELSE LET w == Strip(Head(segs), Whitespace)
         IN  (IF w = <<>> THEN <<>> ELSE <<w>>) \o TrimAndDrop(Tail(segs))

\* C6: split_top_level_commas cuts its input only at the commas that have no
\* unclosed "(" before them, keeps the parts in source order, trims each part
\* and drops empty parts; "a, b(c, d), e" gives ["a", "b(c, d)", "e"].
C6_SplitTopLevel ==
    pc = "split_done" =>
        /\ ret_list = TrimAndDrop(SegmentsFrom(arg_text, 1,
                          { i \in 1..Len(arg_text) : TopLevelComma(arg_text, i) }))
        /\ \A k \in DOMAIN ret_list : Trimmed(ret_list[k])
        /\ arg_text = Chars("a, b(c, d), e")
              => ret_list = << Chars("a"), Chars("b(c, d)"), Chars("e") >>

\* C6 witness: the example input was split into its three parts, the comma
\* inside the parentheses staying in the second part.
C6_Witness ==
    /\ pc = "split_done"
    /\ arg_text = Chars("a, b(c, d), e")
    /\ Len(ret_list) = 3
    /\ Contains(ret_list[2], Chars(","))

\* the "(" of s[1..i] that are still open when the ")" without an open "("
\* are ignored: the largest surplus of "(" over ")" in a stretch ending at i
OpenParens(s, i) ==
    LET surplus == { CountIn(s, j, i, "(") - CountIn(s, j, i, ")") : j \in 1..(i + 1) }
    IN  CHOOSE d \in surplus : \A e \in surplus : e <= d

\* C15: during the scan of split_top_level_commas the depth is >= 0 after
\* every character; a ")" met at depth 0 leaves the depth at 0, so after a
\* stray ")" the depth still counts the open "(": a later comma inside
\* parentheses does not split and a later comma outside them does.
C15_DepthClamped ==
    pc \in {"split_scan", "split_done"} =>
        /\ scan.depth >= 0
        /\ scan.depth = OpenParens(arg_text, scan.i)
        /\ (scan.i >= 1 /\ arg_text[scan.i] = ")"
               /\ OpenParens(arg_text, scan.i - 1) = 0) => scan.depth = 0
        /\ (scan.i >= 1 /\ arg_text[scan.i] = ",") =>
               IF OpenParens(arg_text, scan.i) = 0
               THEN scan.buf = <<>>
               ELSE scan.buf # <<>> /\ scan.buf[Len(scan.buf)] = ","

\* C15 witness: the input starts with a stray ")"; the later group "(1, 2)"
\* was kept whole and the commas after "x)" and after "(1, 2)" split.
C15_Witness ==
    /\ pc = "split_done"
    /\ arg_text = Chars("x), y (1, 2), (z, w")
    /\ ret_list = << Chars("x)"), Chars("y (1, 2)"), Chars("(z, w") >>

(***************************************************************************)
(* Additive logic                                                          *)
(***************************************************************************)
\* a literal matched under re.I: each letter in either case
RSeqI(w) == RCat([k \in 1..Len(w) |-> RSet({LowerCh(w[k]), UpperCh(w[k])})])

\* E_INS_RE (re.I | re.X), in two parts: what precedes the group code1 ...
AdditivePrefixRe ==
    RCat(<<RWB, RAlt(<<RSeqI(Chars("E")), RSeqI(Chars("INS"))>>),
           RStar(RSpace), ROpt(RDashOrSpace)>>)
\* ... and the group code1 = \d{3,4}[a-dA-D]? with the closing \b
AdditiveCodeRe ==
    RCat(<<RDigit, RDigit, RDigit, ROpt(RDigit),
           ROpt(RSet({"a","b","c","d","A","B","C","D"})), RWB>>)
\* the group bare = 1[0-9]{2}[a-dA-D] with the \b on both sides
AdditiveBareRe ==
    RCat(<<RWB, RLit("1"), RDigit, RDigit,
           RSet({"a","b","c","d","A","B","C","D"}), RWB>>)

\* The matches of E_INS_RE that start at index i, as <<start of group, end>>.
\* Every character of a group is a word character and the match ends at a
\* \b, so a start has at most one match and no choice between alternatives
\* or repetition counts is left to the order in which re tries them.
AdditiveMatchesAt(text, i) ==
    (UNION { { <<j, e>> : e \in MatchEnds(AdditiveCodeRe, text, j) } :
                j \in MatchEnds(AdditivePrefixRe, text, i) })
        \cup { <<i, e>> : e \in MatchEnds(AdditiveBareRe, text, i) }

\* E_INS_RE.finditer(text): the groups (code1 or bare) of the leftmost
\* non-overlapping matches, scanning from index i
RECURSIVE FindAdditiveCodes(_, _)
FindAdditiveCodes(text, i) ==
    IF i > Len(text) THEN <<>>
    ELSE LET ms == AdditiveMatchesAt(text, i)
         IN  IF ms = {} THEN FindAdditiveCodes(text, i + 1)
             ELSE LET m == CHOOSE x \in ms : TRUE
                  IN  << Slice(text, m[1], m[2] - 1) >>
                          \o FindAdditiveCodes(text, m[2])

_canon_additive(code) ==
    LET c == Replace(Upper(Strip(code, Whitespace)), Chars(" "), <<>>)
    IN  IF StartsWith(c, Chars("E")) \/ StartsWith(c, Chars("INS")) THEN c
        ELSE Chars("E") \o c

\* re.search(rf"\bINS\s*[-\s]?{re.escape(c)}\b", text, flags=re.I)
InsSearch(c, text) ==
    Search(RCat(<<RWB, RSeqI(Chars("INS")), RStar(RSpace), ROpt(RDashOrSpace),
                  RSeqI(c), RWB>>), text)

\* mutant: the INS form is never produced
MutantCanonOf_NoIns(c, text) == _canon_additive(c)

\* the canonical form of one raw code of the text
CanonOf(c, text) ==
    IF InsSearch(c, text) THEN Chars("INS") \o Upper(c) ELSE _canon_additive(c)

\* seen, res = set(), []: the first occurrence of each upper-cased code
RECURSIVE DedupeUpper(_, _)
DedupeUpper(out, seen) ==
    IF out = <<>> THEN <<>>
    ELSE LET cc == Upper(Head(out))
         IN  IF cc \in seen THEN DedupeUpper(Tail(out), seen)
             ELSE <<cc>> \o DedupeUpper(Tail(out), seen \cup {cc})

extract_additives(text) ==
    IF text = <<>> THEN <<>>
    ELSE LET raw == FindAdditiveCodes(text, 1)
             out == [k \in 1..Len(raw) |-> CanonOf(raw[k], text)]
         IN  DedupeUpper(out, {})

(***************************************************************************)
(* extract_additives on label texts written from a list of code mentions.  *)
(* A mention is a prefix ("", "E", "INS" in some case), a separator the    *)
(* pattern allows ("", " " or "-") and the code digits with their letter.  *)
(***************************************************************************)
\* most code mentions in a generated label text
MaxMentions == 2

Mention(prefix, sep, code) ==
    [prefix |-> Chars(prefix), sep |-> Chars(sep), code |-> Chars(code)]

Mentions ==
    { Mention(p, s, c) : p \in {"E", "INS", "ins"}, s \in {"", " ", "-"},
                         c \in {"150d", "621"} }
        \cup { Mention("", "", "150d"), Mention("", "", "621"),
               Mention("e", "", "150D") }

MentionText(m) == m.prefix \o m.sep \o m.code

RECURSIVE Join(_, _)
Join(ws, joiner) ==
    IF ws = <<>> THEN <<>>
    ELSE IF Len(ws) = 1 THEN ws[1]
    ELSE ws[1] \o joiner \o Join(Tail(ws), joiner)

Render(w) ==
    w.lead \o Join([k \in 1..Len(w.mentions) |-> MentionText(w.mentions[k])],
                   w.joiner)

Writings ==
    [lead : {<<>>, Chars("Contains ")},
     joiner : {Chars(", "), Chars(" and ")},
     mentions : ListsUpTo(Mentions, MaxMentions)]

ExtractInit ==
    /\ pc = "extract_call"
    /\ written \in Writings
    /\ arg_text = Render(written)
    /\ scan = <<>>
    /\ ret_list = None
    /\ CallIdle
    /\ ScoreIdle
    /\ NutrIdle
    /\ AnalyzeIdle

ExtractAdditives ==
    /\ pc = "extract_call"
    /\ ret_list' = extract_additives(arg_text)
    /\ pc' = "extract_done"
    /\ UNCHANGED <<callVars, arg_text, scan, written, scoreVars, nutrVars, analyzeVars>>

ExtractNext == ExtractAdditives

SpecExtract == ExtractInit /\ [][ExtractNext]_vars

(***************************************************************************)
(* Claims about extract_additives (checked under SpecExtract)              *)
(***************************************************************************)
\* a mention the pattern recognizes: prefixed, or bare 1xx with a letter
RecognizedMention(m) ==
    \/ m.prefix # <<>>
    \/ /\ Len(m.code) = 4
       /\ m.code[1] = "1"
       /\ m.code[4] \in {"a","b","c","d","A","B","C","D"}

\* the code of mention m is written somewhere in the text with an INS prefix
WrittenWithIns(m, ms) ==
    \E k \in DOMAIN ms :
        /\ Upper(ms[k].prefix) = Chars("INS")
        /\ Upper(ms[k].code) = Upper(m.code)

ReportedForm(m, ms) ==
    (IF WrittenWithIns(m, ms) THEN Chars("INS") ELSE Chars("E")) \o Upper(m.code)

\* the reported forms of the recognized mentions, first occurrences only
RECURSIVE ExpectedCodes(_, _, _)
ExpectedCodes(ms, k, seen) ==
    IF k > Len(ms) THEN <<>>
    ELSE IF ~RecognizedMention(ms[k]) \/ ReportedForm(ms[k], ms) \in seen
         THEN ExpectedCodes(ms, k + 1, seen)
         ELSE << ReportedForm(ms[k], ms) >>
                \o ExpectedCodes(ms, k + 1, seen \cup {ReportedForm(ms[k], ms)})

\* C7: extract_additives returns no duplicate codes, in order of first
\* occurrence; a code written with an explicit INS prefix is reported in the
\* INS form, every other recognized code in the E form, upper-cased;
\* "Contains INS 150d and E621" gives ["INS150D", "E621"].
C7_ExtractAdditives ==
    pc = "extract_done" =>
        /\ ret_list = ExpectedCodes(written.mentions, 1, {})
        /\ \A i, j \in DOMAIN ret_list : i # j => ret_list[i] # ret_list[j]
        /\ arg_text = Chars("Contains INS 150d and E621")
              => ret_list = << Chars("INS150D"), Chars("E621") >>

\* C7 witness: the example text was processed and gave two codes.
C7_Witness ==
    /\ pc = "extract_done"
    /\ arg_text = Chars("Contains INS 150d and E621")
    /\ Len(ret_list) = 2

(***************************************************************************)
(* Nutrition utils: _to_float and coerce_nutrition.                        *)
(* A raw nutriments value is None, a number, a string that float() parses, *)
(* a string it does not parse, or the empty string.  Numbers are whole;    *)
(* the one float the function computes that need not be whole is           *)
(* kcal * 4.184, so energy_kj is kept as a Kj with its thousandths and the *)
(* other seven values as whole numbers.                                    *)
(***************************************************************************)
PyNone == [kind |-> "None", n |-> 0]
PyNum(n) == [kind |-> "number", n |-> n]
PyNumStr(n) == [kind |-> "numeric str", n |-> n]
PyBadStr == [kind |-> "str", n |-> 0]
PyEmptyStr == [kind |-> "empty str", n |-> 0]

\* x is None
IsNone(x) == x.kind = "None"

\* bool(x): None, 0 and "" are false
Truthy(x) ==
    CASE x.kind = "number" -> x.n # 0
      [] x.kind \in {"numeric str", "str"} -> TRUE
      [] OTHER -> FALSE

\* a or b
PyOr(a, b) == IF Truthy(a) THEN a ELSE b

\* nutr.get(key)
Get(nutr, key) == IF key \in DOMAIN nutr THEN nutr[key] ELSE PyNone

\* float(x), or None on TypeError / ValueError
_to_float(x) ==
    IF x.kind \in {"number", "numeric str"} THEN Some(x.n) ELSE None

\* the float energy_kj holds after kcal * 4.184
PyFloat(kj) == [kind |-> "float", n |-> kj]

\* kcal * 4.184 = kcal * 4184 / 1000, for a whole kcal (the double differs
\* from this decimal by less than 1e-12)
KcalToKj(kcal) == Kj((kcal * 4184) \div 1000, (kcal * 4184) % 1000)

\* _to_float(energy_kj) of the return statement, as a Kj
ToFloatKj(x) ==
    IF x.kind = "float" THEN Some(x.n)
    ELSE IF _to_float(x) # None THEN Some(Kj(Val(_to_float(x)), 0))
    ELSE None

\* _to_float(sodium_100g) * 1000.0 with _to_float(...) = None: TypeError
CoerceRaises(nutr) ==
    /\ ~IsNone(Get(nutr, "sodium_100g"))
    /\ _to_float(Get(nutr, "sodium_100g")) = None

\* sodium_mg of a call that does not raise
CoerceSodium(nutr) ==
    IF ~IsNone(Get(nutr, "sodium_100g"))
    THEN Some(Val(_to_float(Get(nutr, "sodium_100g"))) * 1000)
    ELSE IF ~IsNone(Get(nutr, "sodium_mg_100g"))
    THEN _to_float(Get(nutr, "sodium_mg_100g"))
    ELSE IF ~IsNone(Get(nutr, "salt_100g"))
    THEN LET salt == _to_float(Get(nutr, "salt_100g"))
         IN  IF salt # None THEN Some(Val(salt) * 393) ELSE None
    ELSE None

\* energy_kj before the final _to_float
CoerceEnergy(nutr) ==
    LET energy_kj == PyOr(Get(nutr, "energy-kj_100g"),
                          PyOr(Get(nutr, "energy_kj_100g"), Get(nutr, "energy_100g")))
    IN  IF IsNone(energy_kj) /\ ~IsNone(Get(nutr, "energy-kcal_100g"))
        THEN LET kcal == _to_float(Get(nutr, "energy-kcal_100g"))
             IN  IF kcal # None THEN PyFloat(KcalToKj(Val(kcal))) ELSE PyNone
        ELSE energy_kj

CoerceSatFat(nutr) ==
    IF IsNone(Get(nutr, "saturated-fat_100g"))
    THEN Get(nutr, "saturated_fat_100g") ELSE Get(nutr, "saturated-fat_100g")

CoerceTransFat(nutr) ==
    IF IsNone(Get(nutr, "trans-fat_100g"))
    THEN Get(nutr, "trans_fat_100g") ELSE Get(nutr, "trans-fat_100g")

\* the returned dict (of a call that does not raise)
coerce_nutrition(nutr) ==
    [energy_kj |-> ToFloatKj(CoerceEnergy(nutr)),
     sugar_g |-> _to_float(Get(nutr, "sugars_100g")),
     sodium_mg |-> CoerceSodium(nutr),
     sat_fat_g |-> _to_float(CoerceSatFat(nutr)),
     trans_fat_g |-> _to_float(CoerceTransFat(nutr)),
     fiber_g |-> _to_float(Get(nutr, "fiber_100g")),
     protein_g |-> _to_float(Get(nutr, "proteins_100g")),
     fruit_pct |-> _to_float(
         PyOr(Get(nutr, "fruits-vegetables-nuts-estimate-from-ingredients_100g"),
              Get(nutr, "fruits-vegetables-nuts_100g")))]

(***************************************************************************)
(* Calls of coerce_nutrition on raw nutriments dicts.                      *)
(***************************************************************************)
SodiumFields == {"sodium_100g", "sodium_mg_100g", "salt_100g"}
EnergyKjFields == {"energy-kj_100g", "energy_kj_100g", "energy_100g"}
OtherFields ==
    {"saturated-fat_100g", "saturated_fat_100g", "trans-fat_100g", "trans_fat_100g",
     "sugars_100g", "fiber_100g", "proteins_100g",
     "fruits-vegetables-nuts-estimate-from-ingredients_100g",
     "fruits-vegetables-nuts_100g"}
RawFields == SodiumFields \cup EnergyKjFields \cup {"energy-kcal_100g"} \cup OtherFields

SodiumRaw == {PyNone, PyNum(0), PyNum(2), PyBadStr}
EnergyRaw == {PyNone, PyNum(0), PyNum(1500), PyBadStr}
KcalRaw == {PyNone, PyNum(100), PyNumStr(52), PyBadStr}

\* the other fields: all absent, all numbers, or strings and fallbacks
OtherRaw ==
    { [k \in OtherFields |-> PyNone],
      [k \in OtherFields |->
          CASE k = "sugars_100g" -> PyNum(12)
            [] k = "saturated-fat_100g" -> PyNum(0)
            [] k = "saturated_fat_100g" -> PyNum(5)
            [] k = "trans-fat_100g" -> PyNum(1)
            [] k = "fruits-vegetables-nuts-estimate-from-ingredients_100g" -> PyNum(0)
            [] k = "fruits-vegetables-nuts_100g" -> PyNum(40)
            [] OTHER -> PyNum(3)],
      [k \in OtherFields |->
          CASE k = "sugars_100g" -> PyBadStr
            [] k = "saturated_fat_100g" -> PyNumStr(5)
            [] k = "trans_fat_100g" -> PyEmptyStr
            [] k = "fiber_100g" -> PyNumStr(3)
            [] OTHER -> PyNone] }

RawNutriments ==
    { [k \in RawFields |->
          IF k \in SodiumFields THEN s[k]
          ELSE IF k \in EnergyKjFields THEN e[k]
          ELSE IF k = "energy-kcal_100g" THEN kcal
          ELSE o[k]] :
      s \in [SodiumFields -> SodiumRaw], e \in [EnergyKjFields -> EnergyRaw],
      kcal \in KcalRaw, o \in OtherRaw }

CoerceInit ==
    /\ pc = "coerce_call"
    /\ arg_nutr \in RawNutriments
    /\ ret_nutrition = None
    /\ raised = ""
    /\ arg_text = <<>>
    /\ CallIdle
    /\ ScoreIdle
    /\ TextIdle
    /\ AnalyzeIdle

\* the call returns the profile
CoerceReturn ==
    /\ pc = "coerce_call"
    /\ ~CoerceRaises(arg_nutr)
    /\ ret_nutrition' = Some(coerce_nutrition(arg_nutr))
    /\ pc' = "coerce_done"
    /\ UNCHANGED <<callVars, arg_text, arg_nutr, raised, scoreVars, textVars, analyzeVars>>

\* the call is left by the TypeError of None * 1000.0
CoerceRaise ==
    /\ pc = "coerce_call"
    /\ CoerceRaises(arg_nutr)
    /\ raised' = "TypeError"
    /\ pc' = "coerce_raised"
    /\ UNCHANGED <<callVars, arg_text, arg_nutr, ret_nutrition, scoreVars, textVars, analyzeVars>>

CoerceNext == CoerceReturn \/ CoerceRaise

SpecCoerce == CoerceInit /\ [][CoerceNext]_vars

(***************************************************************************)
(* Claims about coerce_nutrition (checked under SpecCoerce)                *)
(***************************************************************************)
Parses(x) == x.kind \in {"number", "numeric str"}

\* sodium from the first parseable entry of: mg field, g field * 1000,
\* salt field * 393
FirstParseableSodium(nutr) ==
    IF Parses(nutr["sodium_mg_100g"]) THEN Some(nutr["sodium_mg_100g"].n)
    ELSE IF Parses(nutr["sodium_100g"]) THEN Some(nutr["sodium_100g"].n * 1000)
    ELSE IF Parses(nutr["salt_100g"]) THEN Some(nutr["salt_100g"].n * 393)
    ELSE None

\* C8: sodium_mg comes from the first parseable entry in the order mg field,
\* g field times 1000, salt field times 393; a record carrying both the mg
\* and the g field takes the mg field.
C8_SodiumOrder ==
    pc = "coerce_done" =>
        Val(ret_nutrition).sodium_mg = FirstParseableSodium(arg_nutr)

\* C9: coerce_nutrition never raises: every call returns a complete profile
\* in which an absent or unparseable nutrient is None.
C9_NeverRaises ==
    pc # "coerce_call" =>
        /\ raised = ""
        /\ ret_nutrition # None
        /\ DOMAIN Val(ret_nutrition) = DOMAIN EmptyNutrition
        /\ (\A k \in SodiumFields : ~Parses(arg_nutr[k]))
              => Val(ret_nutrition).sodium_mg = None

\* energy from the first parseable entry of: energy-kj_100g, energy_kj_100g,
\* energy_100g, energy-kcal_100g * 4.184
FirstParseableEnergy(nutr) ==
    IF Parses(nutr["energy-kj_100g"]) THEN Some(Kj(nutr["energy-kj_100g"].n, 0))
    ELSE IF Parses(nutr["energy_kj_100g"]) THEN Some(Kj(nutr["energy_kj_100g"].n, 0))
    ELSE IF Parses(nutr["energy_100g"]) THEN Some(Kj(nutr["energy_100g"].n, 0))
    ELSE IF Parses(nutr["energy-kcal_100g"])
         THEN Some(Kj((nutr["energy-kcal_100g"].n * 4184) \div 1000,
                      (nutr["energy-kcal_100g"].n * 4184) % 1000))
    ELSE None

\* C10: energy_kj comes from the first parseable entry in the order explicit
\* kJ fields, energy_100g, kcal times 4.184; a 0 in an earlier field is kept,
\* an unparseable earlier field falls through, and energy_kj is None only
\* when no entry parses.
C10_EnergyOrder ==
    pc = "coerce_done" =>
        Val(ret_nutrition).energy_kj = FirstParseableEnergy(arg_nutr)

(***************************************************************************)
(* Text utilities: norm and find_section                                   *)
(***************************************************************************)
\* the characters of DASH_RANGE, each a one-character token of the model
DASH_RANGE == {"U+2010", "U+2011", "U+2012", "U+2013", "U+2014", "U+2015"}

\* re.sub(DASH_RANGE, "-", s)
SubDashes(s) == [i \in 1..Len(s) |-> IF s[i] \in DASH_RANGE THEN "-" ELSE s[i]]

\* re.sub(r"\s+", " ", s)
RECURSIVE CollapseSpaces(_)
CollapseSpaces(s) ==
    IF s = <<>> THEN <<>>
    ELSE IF IsSpace(Head(s))
         THEN <<" ">> \o CollapseSpaces(LStrip(s, Whitespace))
         ELSE <<Head(s)>> \o CollapseSpaces(Tail(s))

norm(s) ==
    IF s = <<>> THEN <<>>
    ELSE Strip(CollapseSpaces(SubDashes(Replace(s, <<"\n">>, <<" ">>))), Whitespace)

\* (?i) re.escape(k).replace(r"\ ", r"\s*")
KeyRe(k) ==
    RCat([i \in 1..Len(k) |->
            IF k[i] = " " THEN RStar(RSpace)
            ELSE RSet({LowerCh(k[i]), UpperCh(k[i])})])

\* the least element of a non-empty set of integers
MinOf(S) == CHOOSE x \in S : \A y \in S : x <= y

\* the greatest element of a non-empty set of integers
MaxOf(S) == CHOOSE x \in S : \A y \in S : x >= y

\* the indices at which a match of "|".join(keys) starts; the join of an
\* empty list is the empty pattern, which matches at every index
KeyStarts(keys, t) ==
    IF keys = <<>> THEN 1..(Len(t) + 1)
    ELSE { i \in 1..(Len(t) + 1) :
             \E k \in DOMAIN keys : MatchEnds(KeyRe(keys[k]), t, i) # {} }

\* m.end() of start_re.search(t), as the index of the next character:
\* leftmost start, first alternative that matches there, each \s* greedy
\* (the characters of a key are fixed, so only a \s* at the end of the key
\* leaves a choice of ends, and it takes the longest)
StartMatchEnd(start_keys, t) ==
    LET i == MinOf(KeyStarts(start_keys, t))
    IN  IF start_keys = <<>> THEN i
        ELSE LET k == MinOf({ j \in DOMAIN start_keys :
                                MatchEnds(KeyRe(start_keys[j]), t, i) # {} })
             IN  MaxOf(MatchEnds(KeyRe(start_keys[k]), t, i))

\* mutant: the block ends at the nearest end marker, whatever its place in
\* the list
MutantCutAtEndKey_Nearest(rest, end_keys) ==
    IF KeyStarts(end_keys, rest) = {} THEN rest
    ELSE Slice(rest, 1, MinOf(KeyStarts(end_keys, rest)) - 1)

\* the loop over end_keys: the first listed key found in rest ends the block
RECURSIVE CutAtEndKey(_, _)
CutAtEndKey(rest, end_keys) ==
    IF end_keys = <<>> THEN rest
    ELSE IF Search(KeyRe(Head(end_keys)), rest)
         THEN Slice(rest, 1, MinOf(KeyStarts(<<Head(end_keys)>>, rest)) - 1)
         ELSE CutAtEndKey(rest, Tail(end_keys))

find_section(text, start_keys, end_keys) ==
    LET t == norm(text)
    IN  IF t = <<>> THEN <<>>
        ELSE IF KeyStarts(start_keys, t) = {} THEN <<>>
        ELSE LET start == StartMatchEnd(start_keys, t)
             IN  Strip(CutAtEndKey(Slice(t, start, Len(t)), end_keys),
                       {" ", ":", ".", "-"})

\* the start and end keys parse_ingredients passes to find_section
IngredientStartKeys ==
    << Chars("ingredients"), Chars("ingredient"), Chars("ingedients"),
       Chars("ingr edients"), Chars("in gredients"), Chars("contains") >>
IngredientEndKeys ==
    << Chars("allergen"), Chars("allergy"), Chars("nutrition"),
       Chars("nutritional"), Chars("nutri tion"), Chars("storage"),
       Chars("best before"), Chars("manufactured"), Chars("packed by"),
       Chars("net weight") >>

\* parse_ingredients: the ingredients block
IngredientsBlock(full_text) ==
    find_section(full_text, IngredientStartKeys, IngredientEndKeys)

(***************************************************************************)
(* Static data: ADDITIVE_DB, BEVERAGE_HINTS, NON_BEVERAGE_LIQUIDS          *)
(***************************************************************************)
ADDITIVE_DB ==
    {
      Additive("E621", "Monosodium glutamate (MSG)", "caution"),
      Additive("E622", "Monopotassium glutamate", "caution"),
      Additive("E623", "Calcium diglutamate", "caution"),
      Additive("E624", "Monoammonium glutamate", "caution"),
      Additive("E625", "Magnesium diglutamate", "caution"),
      Additive("E627", "Disodium guanylate", "caution"),
      Additive("E631", "Disodium inosinate", "caution"),
      Additive("E102", "Tartrazine", "avoid"),
      Additive("E104", "Quinoline Yellow", "avoid"),
      Additive("E110", "Sunset Yellow FCF", "avoid"),
      Additive("E122", "Carmoisine", "avoid"),
      Additive("E124", "Ponceau 4R", "avoid"),
      Additive("E129", "Allura Red AC", "avoid"),
      Additive("E150D", "Caramel colour IV (sulphite ammonia)", "moderate"),
      Additive("INS150D", "Caramel colour IV (sulphite ammonia)", "moderate"),
      Additive("E211", "Sodium benzoate", "moderate"),
      Additive("E202", "Potassium sorbate", "moderate"),
      Additive("E200", "Sorbic acid", "moderate"),
      Additive("E249", "Potassium nitrite", "avoid"),
      Additive("E250", "Sodium nitrite", "avoid"),
      Additive("E251", "Sodium nitrate", "avoid"),
      Additive("E252", "Potassium nitrate", "avoid"),
      Additive("E950", "Acesulfame K", "moderate"),
      Additive("E951", "Aspartame", "avoid"),
      Additive("E954", "Saccharin", "moderate"),
      Additive("E952", "Cyclamates", "avoid"),
      Additive("E955", "Sucralose", "moderate"),
      Additive("E960", "Steviol glycosides", "generally safe"),
      Additive("E961", "Neotame", "moderate"),
      Additive("E962", "Aspartame-acesulfame salt", "moderate"),
      Additive("E471", "Mono-/diglycerides of fatty acids", "moderate"),
      Additive("E450", "Diphosphates", "moderate"),
      Additive("E451", "Triphosphates", "moderate"),
      Additive("E452", "Polyphosphates", "moderate"),
      Additive("E319", "Tertiary butylhydroquinone (TBHQ)", "avoid"),
      Additive("E320", "Butylated hydroxyanisole (BHA)", "avoid"),
      Additive("E321", "Butylated hydroxytoluene (BHT)", "avoid"),
      Additive("E296", "Malic acid", "generally safe"),
      Additive("E330", "Citric acid", "generally safe"),
      Additive("E331", "Sodium citrates", "generally safe"),
      Additive("E327", "Calcium lactate", "generally safe"),
      Additive("E170", "Calcium carbonate", "generally safe") }

BEVERAGE_HINTS ==
    {
      Chars("beverage"), Chars("buttermilk"), Chars("cola"), Chars("drink"),
      Chars("energy drink"), Chars("flavoured milk"), Chars("iced tea"),
      Chars("isotonic"), Chars("juice"), Chars("lassi"), Chars("milk drink"),
      Chars("nectar"), Chars("soda"), Chars("soft drink"), Chars("sparkling"),
      Chars("tonic"), Chars("water"), Chars("yogurt drink") }

\* the last entry is written with U+FEFF between "rel" and "ish"
NON_BEVERAGE_LIQUIDS ==
    {
      Chars("oil"), Chars("ghee"), Chars("sauce"), Chars("ketchup"),
      Chars("vinegar"), Chars("dressing"), Chars("soy sauce"), Chars("syrup"),
      Chars("chutney"), Chars("pickle"),
      <<"r", "e", "l", "U+FEFF", "i", "s", "h">> }

(***************************************************************************)
(* classify_additives                                                      *)
(***************************************************************************)
\* db.get(key) on the dict db as it is when the call runs: the entry, or None
DbGetIn(db, key) ==
    IF \E a \in db : a.code = key
    THEN Some(CHOOSE a \in db : a.code = key) ELSE None

\* a or b, for dict-or-None operands
OptOr(a, b) == IF a # None THEN a ELSE b

\* db_hit of one code
DbHitIn(db, key) ==
    LET first == OptOr(DbGetIn(db, key),
                   OptOr(DbGetIn(db, Replace(key, Chars("INS"), Chars("E"))),
                         DbGetIn(db, Replace(key, Chars("E"), Chars("INS")))))
        bare == Replace(Replace(key, Chars("INS"), <<>>), Chars("E"), <<>>)
    IN  IF first # None THEN first
        ELSE OptOr(DbGetIn(db, Chars("E") \o bare), DbGetIn(db, Chars("INS") \o bare))

\* mutant: only the code itself is looked up
Mutant_ClassifyOneIn_DirectOnly(db, code) ==
    LET key == Replace(Upper(code), Chars(" "), <<>>)
        hit == DbGetIn(db, key)
    IN  IF hit # None
        THEN [code |-> key, name |-> Val(hit).name, risk |-> Val(hit).risk]
        ELSE [code |-> key, name |-> Chars("Unknown additive"),
              risk |-> Chars("unknown")]

\* the record appended for one code
ClassifyOneIn(db, code) ==
    LET key == Replace(Upper(code), Chars(" "), <<>>)
        hit == DbHitIn(db, key)
    IN  IF hit # None
        THEN [code |-> key, name |-> Val(hit).name, risk |-> Val(hit).risk]
        ELSE [code |-> key, name |-> Chars("Unknown additive"),
              risk |-> Chars("unknown")]

ClassifyOne(code) == ClassifyOneIn(ADDITIVE_DB, code)

classify_additives(codes) == [k \in 1..Len(codes) |-> ClassifyOne(codes[k])]

(***************************************************************************)
(* is_beverage                                                             *)
(***************************************************************************)
\* any(h in blob for h in hints)
AnyIn(hints, blob) == \E h \in hints : Contains(blob, h)

\* the loop over (name, cats): "T", "F" on a return, "" when it falls through
RECURSIVE BeverageByHints(_)
BeverageByHints(blobs) ==
    IF blobs = <<>> THEN ""
    ELSE IF AnyIn(BEVERAGE_HINTS, Head(blobs)) THEN "T"
    ELSE IF AnyIn(NON_BEVERAGE_LIQUIDS, Head(blobs)) THEN "F"
    ELSE BeverageByHints(Tail(blobs))

\* p.product_name, p.categories and p.quantity, "" for a missing or None field
is_beverage(p) ==
    LET name == Lower(p.product_name)
        cats == Replace(Lower(p.categories), Chars(","), Chars(" "))
        qty == Lower(p.quantity)
        byHints == BeverageByHints(<<name, cats>>)
    IN  IF byHints # "" THEN byHints = "T"
        ELSE /\ (Contains(qty, Chars("ml")) \/ Contains(qty, Chars("l")))
             /\ ~AnyIn(NON_BEVERAGE_LIQUIDS, name)

(***************************************************************************)
(* analyze_product.  A product dict p is a record of the fields the        *)
(* function reads; a missing, None or empty string field is "" (each is    *)
(* read through "or").                                                     *)
(***************************************************************************)
\* a or b, for str-or-None operands
StrOr(a, b) == IF a # <<>> THEN a ELSE b

\* ingredients_text of analyze_product
ProductIngredientsText(p) ==
    StrOr(p.ingredients_text,
          StrOr(p.ingredients_text_en, p.ingredients_text_fr))

\* the result dict of a call that does not raise: its fields name, score,
\* grade, isBeverage, ingredients_text, nutrition and additives
analyze_product(p) ==
    LET nutrition == coerce_nutrition(p.nutriments)
        ingredients_text == ProductIngredientsText(p)
        block == IngredientsBlock(StrOr(ingredients_text, p.ingredients_text_debug))
        additives_info == classify_additives(extract_additives(block))
        beverage == is_beverage(p)
        score == compute_health_score(nutrition, additives_info,
                                      StrOr(block, ingredients_text), beverage)
    IN  [name |-> StrOr(p.product_name, Chars("Unknown")),
         score |-> score,
         grade |-> Chars(grade_from_score(score)),
         isBeverage |-> beverage,
         ingredients_text |-> ingredients_text,
         nutrition |-> nutrition,
         additives |-> additives_info]

(***************************************************************************)
(* Calls of grade_from_score on every score and of analyze_product on      *)
(* sample products.                                                        *)
(***************************************************************************)
Nutriments(sodium_g, energy, sugars, satfat, fiber, proteins, fruit) ==
    [k \in RawFields |->
        CASE k = "sodium_100g" -> sodium_g
          [] k = "energy-kj_100g" -> energy
          [] k = "sugars_100g" -> sugars
          [] k = "saturated-fat_100g" -> satfat
          [] k = "fiber_100g" -> fiber
          [] k = "proteins_100g" -> proteins
          [] k = "fruits-vegetables-nuts_100g" -> fruit
          [] OTHER -> PyNone]

ProductNutriments ==
    { Nutriments(PyNone, PyNone, PyNone, PyNone, PyNone, PyNone, PyNone),
      Nutriments(PyNum(0), PyNum(150), PyNum(2), PyNum(0), PyNum(8), PyNum(11), PyNum(85)),
      \* energy given in kcal only: 215 kcal = 899.56 kJ
      [Nutriments(PyNum(0), PyNone, PyNum(6), PyNum(2), PyNum(3), PyNum(6), PyNone)
          EXCEPT !["energy-kcal_100g"] = PyNum(215)],
      Nutriments(PyNum(2), PyNum(2100), PyNum(30), PyNum(13), PyNum(0), PyNum(2), PyNone),
      Nutriments(PyNumStr(1), PyNum(1200), PyBadStr, PyNum(4), PyNone, PyNum(4), PyNone),
      Nutriments(PyBadStr, PyNum(900), PyNum(6), PyNum(2), PyNum(3), PyNum(6), PyNone) }

ProductTexts ==
    { <<>>,
      Chars("Ingredients: Water, Sugar, Citric Acid (E330), Salt, Allergens: Milk"),
      Chars("Contains E250, E102 and palm oil, msg. Storage: dry"),
      Chars("Ingredients: pork, salt, INS 250"),
      Chars("oats, almonds") }

Products ==
    [nutriments : ProductNutriments,
     ingredients_text : ProductTexts,
     ingredients_text_en : {<<>>, Chars("Ingredients: sugar, INS 150d")},
     ingredients_text_fr : {<<>>},
     ingredients_text_debug : {<<>>, Chars("Ingredients: E621")},
     product_name : {<<>>, Chars("Cola"), Chars("Olive oil")},
     categories : {<<>>, Chars("Snacks,Drinks")},
     quantity : {<<>>, Chars("500 ml"), Chars("500 g"), Chars("1 lb")}]

AnalyzeInit ==
    /\ arg_text = <<>>
    /\ arg_nutrition = None
    /\ arg_additives = None
    /\ arg_beverage = FALSE
    /\ ret_grade = None
    /\ ret_result = None
    /\ CallIdle
    /\ TextIdle
    /\ NutrIdle
    /\ \/ /\ pc = "grade_call"
          /\ ret_score \in { Some(s) : s \in 0..100 }
          /\ arg_product = <<>>
       \/ /\ pc = "analyze_call"
          /\ ret_score = None
          /\ arg_product \in Products

\* the call returns the result dict
AnalyzeProduct ==
    /\ pc = "analyze_call"
    /\ ~CoerceRaises(arg_product.nutriments)
    /\ ret_result' = Some(analyze_product(arg_product))
    /\ pc' = "analyzed"
    /\ UNCHANGED <<callVars, arg_text, arg_product, scoreVars, textVars, nutrVars>>

\* the TypeError of coerce_nutrition leaves analyze_product
AnalyzeRaise ==
    /\ pc = "analyze_call"
    /\ CoerceRaises(arg_product.nutriments)
    /\ raised' = "TypeError"
    /\ pc' = "analyze_raised"
    /\ UNCHANGED <<callVars, arg_text, arg_product, ret_result, arg_nutr, ret_nutrition,
                   scoreVars, textVars>>

AnalyzeNext == GradeFromScore \/ AnalyzeProduct \/ AnalyzeRaise

SpecAnalyze == AnalyzeInit /\ [][AnalyzeNext]_vars

(***************************************************************************)
(* Claims about grade_from_score and analyze_product (under SpecAnalyze)   *)
(***************************************************************************)
\* the grade bands: inclusive lower and upper scores
GradeBands ==
    { <<"A+", 85, 100>>, <<"A", 75, 84>>, <<"B", 65, 74>>,
      <<"C", 50, 64>>, <<"D", 35, 49>>, <<"E", 0, 34>> }

BandsOf(score) == { b \in GradeBands : b[2] <= score /\ score <= b[3] }

\* grade is the grade of the one band that holds score
InBand(score, grade) ==
    /\ score \in 0..100
    /\ \E b \in BandsOf(score) : BandsOf(score) = {b} /\ grade = Chars(b[1])

\* C2: every score in 0..100 gets the grade of exactly one band, with
\* inclusive lower cutoffs 85 A+, 75 A, 65 B, 50 C, 35 D, else E (85 gives
\* A+, 84 gives A), and the grade in an analyze_product result is the grade
\* of the score in the same result.
C2_GradeCutoffs ==
    /\ pc = "graded" =>
          /\ InBand(Val(ret_score), ret_grade)
          /\ Val(ret_score) = 85 => ret_grade = Chars("A+")
          /\ Val(ret_score) = 84 => ret_grade = Chars("A")
    /\ pc = "analyzed" =>
          /\ InBand(Val(ret_result).score, Val(ret_result).grade)
          /\ Val(ret_result).grade = Chars(grade_from_score(Val(ret_result).score))

\* C2 witness: an analyze_product result whose score lies on a cutoff side
\* of the top band.
C2_Witness ==
    /\ pc = "analyzed"
    /\ Val(ret_result).score >= 85
    /\ Val(ret_result).grade = Chars("A+")

(***************************************************************************)
(* parse_ingredients: the ingredient entries                               *)
(***************************************************************************)
\* \d{1,3}(?:\.\d+)?
PctNumberRe ==
    RCat(<<RDigit, ROpt(RDigit), ROpt(RDigit),
           ROpt(RCat(<<RLit("."), RPlus(RDigit)>>))>>)
\* \s*%
PctTailRe == RCat(<<RStar(RSpace), RLit("%")>>)
\* \((\d{1,3}(?:\.\d+)?)\s*%\)
ParenPctRe == RCat(<<RLit("("), PctNumberRe, PctTailRe, RLit(")")>>)

\* the ends of group 1 of (?i)\b(\d{1,3}(?:\.\d+)?)\s*% for a match at i
PctGroupEnds(tok, i) ==
    { j \in MatchEnds(RCat(<<RWB, PctNumberRe>>), tok, i) :
        MatchEnds(PctTailRe, tok, j) # {} }

\* the value of a string of digits
RECURSIVE DigitsToInt(_)
DigitsToInt(ds) ==
    IF ds = <<>> THEN 0
    ELSE 10 * DigitsToInt(SubSeq(ds, 1, Len(ds) - 1))
         + (CHOOSE d \in 0..9 : ToString(d) = ds[Len(ds)])

\* float(txt) for txt = digits or digits.digits: the whole part and the
\* decimals without trailing zeros
ParseFloat(txt) ==
    LET dots == { i \in DOMAIN txt : txt[i] = "." }
        dot == IF dots = {} THEN Len(txt) + 1 ELSE CHOOSE i \in dots : TRUE
    IN  [whole |-> DigitsToInt(Slice(txt, 1, dot - 1)),
         frac |-> RStrip(Slice(txt, dot + 1, Len(txt)), {"0"})]

\* pct = float(m.group(1)) if m else None
PercentOf(tok) ==
    LET starts == { i \in 1..Len(tok) : PctGroupEnds(tok, i) # {} }
    IN  IF starts = {} THEN None
        ELSE LET i == CHOOSE x \in starts : \A y \in starts : x <= y
                 j == CHOOSE e \in PctGroupEnds(tok, i) : TRUE
             IN  Some(ParseFloat(Slice(tok, i, j - 1)))

\* re.sub(r, "", s), scanning from index i
RECURSIVE RemoveMatches(_, _, _)
RemoveMatches(r, s, i) ==
    IF i > Len(s) THEN <<>>
    ELSE LET ends == MatchEnds(r, s, i) \ {i}
         IN  IF ends # {}
             THEN RemoveMatches(r, s, CHOOSE e \in ends : \A f \in ends : f <= e)
             ELSE <<s[i]>> \o RemoveMatches(r, s, i + 1)

\* the name of the entry of one token
NameOf(tok) ==
    Strip(CollapseSpaces(RemoveMatches(ParenPctRe, tok, 1)), {" ", "(", ")"})

\* the loop over the tokens of the block
RECURSIVE ItemsOf(_)
ItemsOf(toks) ==
    IF toks = <<>> THEN <<>>
    ELSE LET tok == Strip(Head(toks), {" ", ".", ";"})
             name == NameOf(tok)
         IN  (IF name # <<>>
              THEN << [name |-> name, percent |-> PercentOf(tok)] >> ELSE <<>>)
             \o ItemsOf(Tail(toks))

\* items of parse_ingredients
ParseItems(ingredients_block) ==
    IF ingredients_block = <<>> THEN <<>>
    ELSE ItemsOf(split_top_level_commas(ingredients_block))

(***************************************************************************)
(* parse_ingredients: allergens                                            *)
(***************************************************************************)
ALLERGENS ==
    {
      Chars("milk"), Chars("lactose"), Chars("butter"), Chars("ghee"),
      Chars("soy"), Chars("soya"), Chars("wheat"), Chars("gluten"),
      Chars("barley"), Chars("rye"), Chars("oats"), Chars("egg"),
      Chars("albumen"), Chars("peanut"), Chars("peanuts"), Chars("tree nuts"),
      Chars("almond"), Chars("hazelnut"), Chars("walnut"), Chars("cashew"),
      Chars("pecan"), Chars("pistachio"), Chars("macadamia"),
      Chars("brazil nut"), Chars("pine nut"), Chars("sesame"),
      Chars("mustard"), Chars("fish"), Chars("shellfish"),
      Chars("crustacean"), Chars("shrimp"), Chars("prawn"), Chars("crab"),
      Chars("lobster"), Chars("celery"), Chars("lupin"), Chars("sulfite"),
      Chars("sulphite"), Chars("sulphites"), Chars("sulfites") }

\* (?i)allerg(?:en|y)[^:]*:
AllergenHeadRe ==
    RCat(<<RSeqI(Chars("allerg")), RAlt(<<RSeqI(Chars("en")), RSeqI(Chars("y"))>>),
           RStar(RNotSet({":"})), RLit(":")>>)
\* [^.\n]+
AllergenChunkRe == RPlus(RNotSet({".", "\n"}))
\* (?i)allerg(?:en|y)[^:]*:\s*([^.\n]+)
AllergenRe == RCat(<<AllergenHeadRe, RStar(RSpace), AllergenChunkRe>>)


\* m_all.group(1) of the leftmost match (greedy \s*, greedy chunk), or None
AllergenChunk(full_text) ==
    LET starts == { i \in 1..Len(full_text) : MatchEnds(AllergenRe, full_text, i) # {} }
    IN  IF starts = {} THEN None
        ELSE LET i == MinOf(starts)
                 h == MaxOf(MatchEnds(AllergenHeadRe, full_text, i))
                 g == MaxOf({ k \in MatchEnds(RStar(RSpace), full_text, h) :
                                 MatchEnds(AllergenChunkRe, full_text, k) # {} })
                 e == MaxOf(MatchEnds(AllergenChunkRe, full_text, g))
             IN  Some(Slice(full_text, g, e - 1))

\* re.split(r"[,\s;/]+", chunk)
RECURSIVE SplitWords(_, _)
SplitWords(chunk, word) ==
    LET seps == {",", ";", "/"} \cup Whitespace
    IN  IF chunk = <<>> THEN <<word>>
        ELSE IF Head(chunk) \in seps
             THEN <<word>> \o SplitWords(LStrip(chunk, seps), <<>>)
             ELSE SplitWords(Tail(chunk), Append(word, Head(chunk)))

\* the allergens named in the chunk after "Allergen...:"
ChunkAllergens(full_text) ==
    LET m_all == AllergenChunk(full_text)
    IN  IF m_all = None THEN {}
        ELSE LET ws == SplitWords(Lower(Val(m_all)), <<>>)
             IN  { RStrip(Strip(ws[k], Whitespace), {"."}) : k \in DOMAIN ws }
                    \cap ALLERGENS

\* \bcontains\b[^.\n]*\b{a}s?\b
ContainsAllergenRe(a) ==
    RCat(<<RWB, RLit("contains"), RWB, RStar(RNotSet({".", "\n"})), RWB,
           [t |-> "lit", s |-> a], ROpt(RLit("s")), RWB>>)

\* the allergens found after a "contains"
ContainsAllergens(low) ==
    IF ~Contains(low, Chars("contains")) THEN {}
    ELSE { a \in ALLERGENS : Search(ContainsAllergenRe(a), low) }

\* the allergen set before sorting
AllergenSet(full_text) ==
    LET found == ChunkAllergens(full_text) \cup ContainsAllergens(Lower(full_text))
    IN  IF found \cap {Chars("lactose"), Chars("butter"), Chars("ghee")} # {}
        THEN found \cup {Chars("milk")} ELSE found

\* the order of str comparison on the characters of the allergen names
CharRank(c) ==
    IF c = " " THEN 0 ELSE CHOOSE i \in 1..26 : LowerLetters[i] = c

RECURSIVE StrLess(_, _)
StrLess(a, b) ==
    IF b = <<>> THEN FALSE
    ELSE IF a = <<>> THEN TRUE
    ELSE IF Head(a) = Head(b) THEN StrLess(Tail(a), Tail(b))
    ELSE CharRank(Head(a)) < CharRank(Head(b))

\* sorted(S)
RECURSIVE Sorted(_)
Sorted(S) ==
    IF S = {} THEN <<>>
    ELSE LET least == CHOOSE x \in S : \A y \in S \ {x} : StrLess(x, y)
         IN  <<least>> \o Sorted(S \ {least})

\* allergens of parse_ingredients
ParseAllergens(full_text) == Sorted(AllergenSet(full_text))

(***************************************************************************)
(* parse_ingredients: flags and the returned dict                          *)
(***************************************************************************)
\* flags of parse_ingredients, from the lower-cased full text and the codes
ParseFlags(low, codes) ==
    [palmOil |-> Search(PalmRe, low),
     addedSugar |-> ContainsAny(low, <<"sugar", "glucose", "fructose", "corn syrup",
                                       "hfcs", "invert syrup", "dextrose",
                                       "malt syrup">>),
     addedSalt |-> Contains(low, Chars("salt")) \/ Contains(low, Chars("sodium chloride")),
     msgLikeEnhancer |->
        \/ Search(MsgRe, low)
        \/ \E k \in DOMAIN codes : Prefix(BareCode(codes[k]), 3) \in MSG_LIKE,
     artificialFlavour |-> Search(ArtFlavourRe, low),
     artificialColour |-> Search(ArtColourRe, low),
     fried |-> Search(FriedRe, low),
     extruded |-> Search(ExtrudedRe, low)]

parse_ingredients(full_text) ==
    LET ingredients_block == IngredientsBlock(full_text)
        codes == extract_additives(ingredients_block)
    IN  [ingredients |-> ParseItems(ingredients_block),
         allergens |-> ParseAllergens(full_text),
         additives |-> classify_additives(codes),
         flags |-> ParseFlags(Lower(full_text), codes),
         ingredients_block |-> ingredients_block]

(***************************************************************************)
(* Calls of parse_ingredients on label texts written from a list of        *)
(* ingredient entries: a name, a note such as "(E330)", and a percentage   *)
(* written in parentheses, bare, or not at all.                            *)
(***************************************************************************)
\* most ingredient entries in a generated label text
MaxEntries == 2

Entry(name, note, form, pct) ==
    [name |-> Chars(name), note |-> Chars(note), form |-> form, pct |-> pct]

\* a written percentage: its digits and the number they denote
Pct(txt, whole, frac) ==
    [txt |-> Chars(txt), val |-> [whole |-> whole, frac |-> Chars(frac)]]
NoPct == Pct("", 0, "")

Entries ==
    { Entry(n, "", "none", NoPct) : n \in {"Sugar", "Cocoa butter"} }
      \cup { Entry(n, "", f, p) : n \in {"Sugar", "Cocoa butter", ""},
                                  f \in {"paren", "bare"},
                                  p \in {Pct("12", 12, ""), Pct("2.50", 2, "5")} }

\* the token of one entry as the label writes it
EntryText(e) ==
    e.name \o e.note
      \o (CASE e.form = "paren" -> Chars(" (") \o e.pct.txt \o Chars("%)")
            [] e.form = "bare" -> Chars(" ") \o e.pct.txt \o Chars("%")
            [] OTHER -> <<>>)

LabelText(w) ==
    w.lead \o Join([k \in 1..Len(w.entries) |-> EntryText(w.entries[k])], Chars(", "))
           \o w.tail

\* the label of the end-to-end example
ExampleLabel ==
    [lead |-> Chars("Ingredients: "),
     entries |-> << Entry("Water", "", "none", NoPct), Entry("Sugar", "", "none", NoPct),
                    Entry("Citric Acid", " (E330)", "none", NoPct),
                    Entry("Salt", "", "none", NoPct) >>,
     tail |-> Chars(", Allergens: Milk")]

Labels ==
    [lead : {Chars("Ingredients: ")},
     entries : ListsUpTo(Entries, MaxEntries),
     tail : {<<>>, Chars(". Allergens: Milk")}] \cup {ExampleLabel}

ParseInit ==
    /\ pc = "parse_call"
    /\ written \in Labels
    /\ arg_text = LabelText(written)
    /\ scan = <<>>
    /\ ret_list = None
    /\ args = <<>>
    /\ ret = None
    /\ heap = <<>>
    /\ ScoreIdle
    /\ NutrIdle
    /\ AnalyzeIdle

ParseIngredients ==
    /\ pc = "parse_call"
    /\ ret' = Some(parse_ingredients(arg_text))
    /\ pc' = "parse_done"
    /\ UNCHANGED <<args, heap, arg_text, textVars, scoreVars, nutrVars, analyzeVars>>

ParseNext == ParseIngredients

SpecParse == ParseInit /\ [][ParseNext]_vars

(***************************************************************************)
(* Claims about parse_ingredients (checked under SpecParse)                *)
(***************************************************************************)
Labelled(ps) == { ps[k][1] : k \in DOMAIN ps }

\* C11: on "Ingredients: Water, Sugar, Citric Acid (E330), Salt, Allergens:
\* Milk" parse_ingredients returns the four entries Water, Sugar, Citric Acid
\* and Salt in order, each with percent null, allergens {milk}, the single
\* additive E330 classified generally safe, and the keyword penalties of the
\* block include "Added sugars/syrups" and "Added salt".
C11_EndToEnd ==
    (pc = "parse_done" /\ written = ExampleLabel) =>
        /\ Val(ret).ingredients =
              << [name |-> Chars("Water"), percent |-> None],
                 [name |-> Chars("Sugar"), percent |-> None],
                 [name |-> Chars("Citric Acid"), percent |-> None],
                 [name |-> Chars("Salt"), percent |-> None] >>
        /\ Val(ret).allergens = << Chars("milk") >>
        /\ Len(Val(ret).additives) = 1
        /\ Val(ret).additives[1].code = Chars("E330")
        /\ Val(ret).additives[1].risk = Chars("generally safe")
        /\ {"Added sugars/syrups", "Added salt"}
              \subseteq Labelled(_keyword_penalties(Val(ret).ingredients_block))

\* the entries the label states: name without the percentage annotation,
\* percent the written number; an entry without a name is dropped
RECURSIVE StatedEntries(_)
StatedEntries(es) ==
    IF es = <<>> THEN <<>>
    ELSE (IF Head(es).name \o Head(es).note = <<>> THEN <<>>
          ELSE << [name |-> Head(es).name \o Head(es).note,
                   percent |-> IF Head(es).form = "none" THEN None
                               ELSE Some(Head(es).pct.val)] >>)
         \o StatedEntries(Tail(es))

\* C16: each entry's percent is the percentage written in its token, in the
\* parenthesized form "(NN%)" or the bare form "NN%", the annotation is
\* removed from the name in both forms, a token without a percentage has
\* percent null, and entries with an empty name are dropped.
C16_PercentAnnotation ==
    (pc = "parse_done" /\ written # ExampleLabel) =>
        Val(ret).ingredients = StatedEntries(written.entries)

(***************************************************************************)
(* Runs of extract_additives and classify_additives against the module's   *)
(* tables.  The heap holds the tables as they are when a call runs, the    *)
(* dicts the calls created, and a log of the classify calls: the text and  *)
(* codes of each, the references it returned and the records as they were  *)
(* when it returned.  A reference names a table entry or a created dict.   *)
(* classify_additives reads ADDITIVE_DB from the heap each time it runs,   *)
(* and the caller, who owns the returned list, may write to a record of    *)
(* it: a write through a reference reaches whatever the reference names.   *)
(***************************************************************************)
\* most classify calls in one behaviour
MaxRuns == 3

StaticTables ==
    [db |-> ADDITIVE_DB, msg_like |-> MSG_LIKE, allergens |-> ALLERGENS]

TableRef(code) == [tab |-> "ADDITIVE_DB", key |-> code]
NewRef(n) == [tab |-> "new", key |-> Chars(ToString(n))]

\* mutant: a table hit is returned as it is, not copied
MutantClassifyRefs_NoCopy(h, codes) ==
    [k \in 1..Len(codes) |->
        LET hit == DbHitIn(h.tables.db, Replace(Upper(codes[k]), Chars(" "), <<>>))
        IN  IF hit # None THEN TableRef(Val(hit).code) ELSE NewRef(Len(h.objs) + k)]

\* out.append({...}): every record of the returned list is a new dict
ClassifyRefs(h, codes) == [k \in 1..Len(codes) |-> NewRef(Len(h.objs) + k)]

\* the heap after classify_additives(codes): the new dicts, tables as before
ClassifyHeap(h, text, codes) ==
    LET recs == [k \in 1..Len(codes) |-> ClassifyOneIn(h.tables.db, codes[k])]
    IN  [h EXCEPT !.objs = @ \o recs,
                  !.log = Append(@, [text |-> text, codes |-> codes,
                                     refs |-> ClassifyRefs(h, codes),
                                     value |-> recs])]

\* rec["risk"] = v through a reference: the dict the reference names changes,
\* be it a created dict or the entry stored in ADDITIVE_DB
SetRisk(h, ref, v) ==
    IF ref.tab = "new"
    THEN [h EXCEPT !.objs[DigitsToInt(ref.key)].risk = v, !.written = TRUE]
    ELSE [h EXCEPT !.tables.db = { IF a.code = ref.key THEN [a EXCEPT !.risk = v]
                                   ELSE a : a \in @ },
                   !.written = TRUE]

ClassifyTexts ==
    { Chars("Contains INS 150d and E621"), Chars("E150d, INS150d, E102"),
      Chars("e-330, E 999"), Chars("INS 250, 150a") }
ClassifyCodes ==
    { Chars("E621"), Chars("INS621"), Chars("621"), Chars("INS150D"), Chars("E999"),
      Chars("ins 999") }
\* most codes in a list passed directly to classify_additives
MaxCodes == 2

ClassifyInit ==
    /\ pc = "idle"
    /\ args = <<>>
    /\ ret = None
    /\ heap = [tables |-> StaticTables, objs |-> <<>>, log |-> <<>>, written |-> FALSE]
    /\ arg_text = <<>>
    /\ ScoreIdle
    /\ TextIdle
    /\ NutrIdle
    /\ AnalyzeIdle

\* extract_additives of each text, and of each list of codes it returns
\* joined with spaces (computed once)
ExtractedCodes == [text \in ClassifyTexts |-> extract_additives(text)]
JoinedCodes == { Join(ExtractedCodes[text], Chars(" ")) : text \in ClassifyTexts }
ReExtractedCodes == [text \in JoinedCodes |-> extract_additives(text)]

\* extract_additives(text)
ExtractCall ==
    /\ pc \in {"idle", "classified", "written", "re_extracted"}
    /\ Len(heap.log) < MaxRuns
    /\ \E text \in ClassifyTexts :
          /\ args' = [text |-> text, codes |-> <<>>]
          /\ ret' = ExtractedCodes[text]
    /\ pc' = "extracted"
    /\ UNCHANGED <<heap, arg_text, scoreVars, textVars, nutrVars, analyzeVars>>

\* classify_additives on the codes just extracted
ClassifyExtracted ==
    /\ pc = "extracted"
    /\ heap' = ClassifyHeap(heap, args.text, ret)
    /\ ret' = ClassifyRefs(heap, ret)
    /\ args' = [args EXCEPT !.codes = ret]
    /\ pc' = "classified"
    /\ UNCHANGED <<arg_text, scoreVars, textVars, nutrVars, analyzeVars>>

\* classify_additives on a list of codes the caller wrote (the first call
\* of a behaviour; runs on texts may follow)
ClassifyGiven ==
    /\ pc = "idle"
    /\ \E codes \in ListsUpTo(ClassifyCodes, MaxCodes) :
          /\ args' = [text |-> <<>>, codes |-> codes]
          /\ heap' = ClassifyHeap(heap, <<>>, codes)
          /\ ret' = ClassifyRefs(heap, codes)
    /\ pc' = "classified"
    /\ UNCHANGED <<arg_text, scoreVars, textVars, nutrVars, analyzeVars>>

\* extract_additives(" ".join(codes)) on the codes just extracted
ReExtract ==
    /\ pc = "extracted"
    /\ args' = [text |-> Join(ret, Chars(" ")), codes |-> ret]
    /\ ret' = ReExtractedCodes[Join(ret, Chars(" "))]
    /\ pc' = "re_extracted"
    /\ UNCHANGED <<heap, arg_text, scoreVars, textVars, nutrVars, analyzeVars>>

\* the caller writes to one record of the list the first call returned,
\* before the later calls run
CallerWrites ==
    /\ pc = "classified"
    /\ Len(heap.log) = 1
    /\ ~heap.written
    /\ \E k \in DOMAIN ret : heap' = SetRisk(heap, ret[k], Chars("edited"))
    /\ pc' = "written"
    /\ UNCHANGED <<args, ret, arg_text, scoreVars, textVars, nutrVars, analyzeVars>>

ClassifyNext ==
    \/ ExtractCall
    \/ ClassifyExtracted
    \/ ClassifyGiven
    \/ CallerWrites
    \/ ReExtract

SpecClassify == ClassifyInit /\ [][ClassifyNext]_vars

(***************************************************************************)
(* Claims about the additive calls (checked under SpecClassify)            *)
(***************************************************************************)
\* the dict a reference of a returned list points to
Deref(h, ref) == h.objs[DigitsToInt(ref.key)]

\* the static tables are as the module wrote them, whatever was called and
\* whatever the caller wrote to a returned record
TablesUnchanged == heap.tables = StaticTables

\* two runs, whatever came between them (other runs, a write of the caller
\* to a returned record): the same codes gave equal lists of records, and
\* the same text gave the same codes and equal lists
SameRunsAgree ==
    \A i, j \in DOMAIN heap.log :
        /\ heap.log[i].codes = heap.log[j].codes
              => heap.log[i].value = heap.log[j].value
        /\ (heap.log[i].text # <<>> /\ heap.log[i].text = heap.log[j].text)
              => /\ heap.log[i].codes = heap.log[j].codes
                 /\ heap.log[i].value = heap.log[j].value

\* no returned record is a table entry, or a dict that the same or an
\* earlier call returned
NoAlias ==
    \A i \in DOMAIN heap.log :
        LET refs == heap.log[i].refs
        IN  /\ \A k \in DOMAIN refs : refs[k].tab # "ADDITIVE_DB"
            /\ \A k, l \in DOMAIN refs : refs[k] = refs[l] => k = l
            /\ \A j \in 1..(i - 1) :
                  \A k \in DOMAIN refs, l \in DOMAIN heap.log[j].refs :
                      refs[k] # heap.log[j].refs[l]

\* C12: classify_additives(extract_additives(text)) is deterministic: runs on
\* the same text or the same codes, whatever calls came between, return equal
\* lists; no call changes ADDITIVE_DB, MSG_LIKE or ALLERGENS; no returned
\* record is a table entry; and extract_additives on the space-joined codes
\* it returned gives the same codes.
C12_Deterministic ==
    /\ TablesUnchanged
    /\ SameRunsAgree
    /\ NoAlias
    /\ pc = "classified" =>
          /\ ret = heap.log[Len(heap.log)].refs
          /\ [k \in DOMAIN ret |-> Deref(heap, ret[k])] = heap.log[Len(heap.log)].value
    /\ pc = "re_extracted" => ret = args.codes

\* C12 witness: the third run is on the text of the first, a run on another
\* text came between, and before the second run the caller wrote to the
\* first record the first run returned.
C12_Witness ==
    /\ pc = "classified"
    /\ Len(heap.log) = 3
    /\ heap.log[1].text # <<>>
    /\ heap.log[1].text = heap.log[3].text
    /\ heap.log[2].text # heap.log[1].text
    /\ Len(ret) >= 1
    /\ heap.written
    /\ heap.log[1].value[1].risk # Chars("edited")
    /\ Deref(heap, heap.log[1].refs[1]).risk = Chars("edited")

\* the number of a code: the key without its INS or E prefix
CodeNumber(key) ==
    IF StartsWith(key, Chars("INS")) THEN Slice(key, 4, Len(key))
    ELSE IF StartsWith(key, Chars("E")) THEN Slice(key, 2, Len(key))
    ELSE key

\* the keys of the lookup chain, in order
LookupChain(key) ==
    << key,
       IF StartsWith(key, Chars("INS")) THEN Chars("E") \o CodeNumber(key)
       ELSE IF StartsWith(key, Chars("E")) THEN Chars("INS") \o CodeNumber(key)
       ELSE key,
       Chars("E") \o CodeNumber(key),
       Chars("INS") \o CodeNumber(key) >>

\* the keys of ADDITIVE_DB
TableKeys == { a.code : a \in ADDITIVE_DB }

\* name and risk of the first key of the chain found in ADDITIVE_DB
ChainInfo(key) ==
    LET chain == LookupChain(key)
        hits == { n \in 1..4 : chain[n] \in TableKeys }
    IN  IF hits = {}
        THEN [name |-> Chars("Unknown additive"), risk |-> Chars("unknown")]
        ELSE LET a == CHOOSE x \in ADDITIVE_DB : x.code = chain[MinOf(hits)]
             IN  [name |-> a.name, risk |-> a.risk]

\* C17: classify_additives returns one record per input code, in input order,
\* with name and risk from the first hit of the lookup chain (the code, the
\* code with its prefix swapped, the number as E and as INS), "Unknown
\* additive" / "unknown" when every step misses; so the INS and the E code of
\* one number get the same name and risk.
C17_LookupChain ==
    pc = "classified" =>
        LET value == heap.log[Len(heap.log)].value
            keys == [k \in DOMAIN args.codes |->
                        Replace(Upper(args.codes[k]), Chars(" "), <<>>)]
            infos == [k \in DOMAIN keys |-> ChainInfo(keys[k])]
            numbers == [k \in DOMAIN keys |-> CodeNumber(keys[k])]
        IN  /\ Len(value) = Len(keys)
            /\ \A k \in DOMAIN keys :
                  /\ value[k].code = keys[k]
                  /\ value[k].name = infos[k].name
                  /\ value[k].risk = infos[k].risk
            /\ \A k, l \in DOMAIN keys :
                  numbers[k] = numbers[l]
                     => /\ value[k].name = value[l].name
                        /\ value[k].risk = value[l].risk

\* C17 witness: INS621 and E621 were classified in one call and INS621 got
\* the table entry of E621.
C17_Witness ==
    /\ pc = "classified"
    /\ args.codes = << Chars("INS621"), Chars("E621") >>
    /\ Deref(heap, ret[1]).risk = Chars("caution")

(***************************************************************************)
(* The HTTP surface (views.py): ocr_analyze_text, ocr_analyze and          *)
(* product_lookup with off_lookup and _http_get.  core.ocr defines neither *)
(* extract_ingredients nor looks_like_beverage and core.present does not   *)
(* exist, so local_extract, looks_like_beverage and build_ui_block are     *)
(* None.  A response is the pair of status and data; an exception that     *)
(* leaves the view is recorded in raised.                                  *)
(***************************************************************************)
\* values of a JSON request body field
JNull == [type |-> "null", s |-> <<>>, n |-> 0]
JStr(s) == [type |-> "str", s |-> s, n |-> 0]
JInt(n) == [type |-> "int", s |-> <<>>, n |-> n]

\* bool(v)
JTruthy(v) ==
    CASE v.type = "str" -> v.s # <<>>
      [] v.type = "int" -> v.n # 0
      [] OTHER -> FALSE

\* v or default, for a field that is absent, null or a str
JStrOr(v, default) == IF JTruthy(v) THEN v.s ELSE default

Response(data, status) == [status |-> status, data |-> data]

\* mutant: fiber and protein are reported as known
Mutant_empty_nutrition_Known ==
    [energy_kj |-> None, sugar_g |-> None, sodium_mg |-> None,
     sat_fat_g |-> None, trans_fat_g |-> None, fiber_g |-> Some(0),
     protein_g |-> Some(0), fruit_pct |-> None]

_empty_nutrition ==
    [energy_kj |-> None, sugar_g |-> None, sodium_mg |-> None,
     sat_fat_g |-> None, trans_fat_g |-> None, fiber_g |-> None,
     protein_g |-> None, fruit_pct |-> None]

\* the locals a scan view has set when it starts to parse and score
ScanLocals(name, brand, ingredients_text, source) ==
    [name |-> name, brand |-> brand, ingredients_text |-> ingredients_text,
     source |-> source]

\* the data dict of a scan view from its locals and the parse result: its
\* fields name, brand, score, grade, ingredients_text,
\* structured_ingredients, allergens, nutrition, additives and source
ScanDict(locals, parsed) ==
    LET nutrition == _empty_nutrition
        score == compute_health_score(nutrition, parsed.additives,
                                      locals.ingredients_text, FALSE)
    IN  [name |-> locals.name,
         brand |-> locals.brand,
         score |-> score,
         grade |-> Chars(grade_from_score(score)),
         ingredients_text |-> locals.ingredients_text,
         structured_ingredients |-> parsed.ingredients,
         allergens |-> parsed.allergens,
         nutrition |-> nutrition,
         additives |-> parsed.additives,
         source |-> Chars(locals.source)]

\* the rest of a scan view, the same in both: parse (once), score and build
\* the data dict
ScanData(locals) ==
    CHOOSE data \in { ScanDict(locals, parsed) :
                        parsed \in {parse_ingredients(locals.ingredients_text)} } : TRUE

\* ocr_analyze_text: .strip() is called on a value that is not a str
TextRaises(data) ==
    JTruthy(data.ingredients_text) /\ data.ingredients_text.type # "str"

\* ocr_analyze_text up to the parse: the 400 response, or the locals
TextScan(data) ==
    LET ingredients_text == Strip(JStrOr(data.ingredients_text, <<>>), Whitespace)
    IN  IF ingredients_text = <<>>
        THEN Response([detail |-> Chars("ingredients_text is required")], 400)
        ELSE ScanLocals(JStrOr(data.name, Chars("Ingredients scan")),
                        IF JTruthy(data.brand) THEN Some(data.brand.s) ELSE None,
                        ingredients_text, "ocr-text")

\* _local_ocr_pipeline: the text pytesseract reads, "" when it raises
LocalOcrText(file) == IF file.ocr = None THEN <<>> ELSE Strip(Val(file.ocr), Whitespace)

\* ocr_analyze up to the parse: a 400 response (for an invalid image its
\* detail is f"invalid image: {e}", file.error being str(e) of the exception
\* Image.open raises), or the locals
ImageScan(files) ==
    LET file == IF files.image # None THEN files.image ELSE files.file
    IN  IF file = None
        THEN Response([detail |-> Chars("image is required (form field 'image')")], 400)
        ELSE IF ~Val(file).opens
        THEN Response([detail |-> Chars("invalid image: ") \o Val(file).error], 400)
        ELSE ScanLocals(Chars("Ingredients scan"), None,
                        LocalOcrText(Val(file)), "ocr-local")

\* a scan view has answered before the parse
Rejected(scanned) == "status" \in DOMAIN scanned

\* ocr_analyze_text, for request data on which it does not raise
ocr_analyze_text(data) ==
    IF Rejected(TextScan(data)) THEN TextScan(data)
    ELSE Response(ScanData(TextScan(data)), 200)

\* ocr_analyze on request.FILES
ocr_analyze(files) ==
    IF Rejected(ImageScan(files)) THEN ImageScan(files)
    ELSE Response(ScanData(ImageScan(files)), 200)

\* outcomes of one requests.get: an exception (timeout included) or a
\* response with a status code and a body
GetRaises == [kind |-> "exception", status_code |-> 0, body |-> <<>>]
GetResponse(status_code, body) ==
    [kind |-> "response", status_code |-> status_code, body |-> body]

\* bodies: text that r.json() cannot decode, or a JSON object with an
\* optional status and an optional product
Undecodable == [json |-> "undecodable", status |-> None, product |-> None]
JsonObject(status, product) ==
    [json |-> "object", status |-> status, product |-> product]

\* mutant: 404 is retried as well
MutantRetryStatuses_With404 == {404, 429, 500, 502, 503, 504}

RetryStatuses == {429, 500, 502, 503, 504}

\* _http_get from the given attempt on: attempts[attempt + 1] is what
\* requests.get does in that attempt
RECURSIVE HttpGetFrom(_, _, _)
HttpGetFrom(attempts, attempt, retries) ==
    IF attempt > retries THEN None
    ELSE LET r == attempts[attempt + 1]
         IN  IF r.kind = "exception"
             THEN IF attempt < retries
                  THEN HttpGetFrom(attempts, attempt + 1, retries)
                  ELSE None
             ELSE IF r.status_code = 200 THEN Some(r)
             ELSE IF r.status_code \in RetryStatuses /\ attempt < retries
                  THEN HttpGetFrom(attempts, attempt + 1, retries)
                  ELSE None

_http_get(attempts, retries) == HttpGetFrom(attempts, 0, retries)

\* off_lookup calls _http_get(url, timeout=7.5, retries=1)
LookupRetries == 1

\* off_lookup after _http_get has returned r: the product analyze_product
\* is called with, or None when off_lookup returns None
OffProductOf(r) ==
    IF r = None THEN None
    ELSE IF Val(r).body.json = "undecodable" THEN None
    ELSE IF Val(r).body.status # Some(1) \/ Val(r).body.product = None THEN None
    ELSE Val(r).body.product

\* off_lookup reaches analyze_product with this product, or returns None
OffProduct(attempts) == OffProductOf(_http_get(attempts, LookupRetries))

\* off_lookup: the TypeError of coerce_nutrition leaves analyze_product
OffLookupRaises(attempts) ==
    /\ OffProduct(attempts) # None
    /\ CoerceRaises(Val(OffProduct(attempts)).nutriments)

\* off_lookup, for attempts on which it does not raise
off_lookup(attempts) ==
    IF OffProduct(attempts) = None THEN None
    ELSE Some(analyze_product(Val(OffProduct(attempts))))

\* product_lookup, for attempts on which off_lookup does not raise
product_lookup(attempts) ==
    LET data == off_lookup(attempts)
    IN  IF data = None
        THEN Response([detail |-> Chars("Not found")], 404)
        ELSE Response(Val(data), 200)

(***************************************************************************)
(* One request per behaviour: the request is drawn in the initial state    *)
(* and the view it is routed to answers it or raises.  A view takes one    *)
(* step per wait: ocr_analyze waits for pytesseract, product_lookup waits  *)
(* in each requests.get and in the time.sleep between two attempts.        *)
(***************************************************************************)
TextBodies ==
    [ingredients_text : { JNull, JStr(<<>>), JStr(Chars("  ")),
                          JStr(Chars(" sugar, E250 ")),
                          JStr(Chars("Ingredients: oats, milk")),
                          JStr(Chars("Ingredients: E250, E102, hydrogenated palm oil, msg, fried")),
                          JInt(0), JInt(5) },
     name : { JNull, JStr(Chars("Cola")) },
     brand : { JNull, JStr(Chars("Acme")) }]

\* an uploaded file: whether Image.open accepts it, the text of the
\* exception it raises when it does not, and what pytesseract reads from
\* the image (None when pytesseract raises)
Uploads ==
    { [opens |-> opens,
       error |-> IF opens THEN <<>>
                 ELSE Chars("cannot identify image file 'label.jpg'"),
       ocr |-> ocr] :
        opens \in BOOLEAN,
        ocr \in { None, Some(<<>>), Some(Chars("Ingredients: sugar, palm oil ")) } }

FileForms == [image : Opt(Uploads), file : Opt(Uploads)]

UpstreamProducts ==
    { [nutriments |-> nutriments,
       ingredients_text |-> Chars("Contains E250, E102 and palm oil, msg. Storage: dry"),
       ingredients_text_en |-> <<>>,
       ingredients_text_fr |-> <<>>,
       ingredients_text_debug |-> <<>>,
       product_name |-> Chars("Cola"),
       categories |-> <<>>,
       quantity |-> Chars("500 ml")] : nutriments \in ProductNutriments }

UpstreamBodies ==
    {Undecodable}
      \cup { JsonObject(status, product) :
                status \in Opt({0, 1}), product \in Opt(UpstreamProducts) }

UpstreamOutcomes ==
    {GetRaises, GetResponse(404, <<>>), GetResponse(503, <<>>)}
      \cup { GetResponse(200, body) : body \in UpstreamBodies }

Request(route, data, files, attempts) ==
    [route |-> route, data |-> data, files |-> files, attempts |-> attempts]

Requests ==
    { Request("ocr_analyze_text", data, <<>>, <<>>) : data \in TextBodies }
      \cup { Request("ocr_analyze", <<>>, files, <<>>) : files \in FileForms }
      \cup { Request("product_lookup", <<>>, <<>>, <<first, second>>) :
                first \in UpstreamOutcomes, second \in UpstreamOutcomes }

HttpInit ==
    /\ pc = "request"
    /\ args \in Requests
    /\ ret = None
    /\ heap = <<>>
    /\ arg_text = <<>>
    /\ ScoreIdle
    /\ TextIdle
    /\ NutrIdle
    /\ AnalyzeIdle

\* POST ocr/analyze-text/ returns a response
OcrAnalyzeText ==
    /\ pc = "request"
    /\ args.route = "ocr_analyze_text"
    /\ ~TextRaises(args.data)
    /\ ret' = Some(ocr_analyze_text(args.data))
    /\ pc' = "responded"
    /\ UNCHANGED <<args, heap, arg_text, scoreVars, textVars, nutrVars, analyzeVars>>

\* POST ocr/analyze-text/: the AttributeError of .strip() leaves the view
OcrAnalyzeTextRaise ==
    /\ pc = "request"
    /\ args.route = "ocr_analyze_text"
    /\ TextRaises(args.data)
    /\ raised' = "AttributeError"
    /\ pc' = "raised"
    /\ UNCHANGED <<callVars, arg_text, arg_nutr, ret_nutrition, scoreVars,
                   textVars, analyzeVars>>

\* POST ocr/analyze/: no file, or a file Image.open rejects, is answered 400
\* before any OCR
OcrAnalyzeReject ==
    /\ pc = "request"
    /\ args.route = "ocr_analyze"
    /\ Rejected(ImageScan(args.files))
    /\ ret' = Some(ImageScan(args.files))
    /\ pc' = "responded"
    /\ UNCHANGED <<args, heap, arg_text, scoreVars, textVars, nutrVars, analyzeVars>>

\* POST ocr/analyze/: the image is decoded and _local_ocr_pipeline calls
\* pytesseract.image_to_string, which runs tesseract and waits for it
OcrAnalyzeOcr ==
    /\ pc = "request"
    /\ args.route = "ocr_analyze"
    /\ ~Rejected(ImageScan(args.files))
    /\ heap' = [img |-> IF args.files.image # None
                        THEN Val(args.files.image) ELSE Val(args.files.file)]
    /\ pc' = "ocr"
    /\ UNCHANGED <<args, ret, arg_text, scoreVars, textVars, nutrVars, analyzeVars>>

\* POST ocr/analyze/: pytesseract has returned or raised; the view parses,
\* scores and returns the response
OcrAnalyze ==
    /\ pc = "ocr"
    /\ ret' = Some(Response(ScanData(
                   ScanLocals(Chars("Ingredients scan"), None,
                              LocalOcrText(heap.img), "ocr-local")), 200))
    /\ pc' = "responded"
    /\ UNCHANGED <<args, heap, arg_text, scoreVars, textVars, nutrVars, analyzeVars>>

\* product_lookup is in requests.get of the iteration heap.attempt of
\* _http_get (the first one when the request has just arrived)
InGet == args.route = "product_lookup" /\ pc \in {"request", "get_loop"}

\* the attempt counter of _http_get
LookupAttempt == IF heap = <<>> THEN 0 ELSE heap.attempt

\* what requests.get does in the iteration under way
LookupOutcome == args.attempts[LookupAttempt + 1]

\* the iteration under way ends in time.sleep(...); continue
LookupBacksOff ==
    /\ LookupAttempt < LookupRetries
    /\ \/ LookupOutcome.kind = "exception"
       \/ LookupOutcome.status_code \in RetryStatuses

\* GET products/<barcode>/: requests.get raised or answered a transient
\* status and an attempt is left: _http_get enters time.sleep
ProductLookupBackoff ==
    /\ InGet
    /\ LookupBacksOff
    /\ heap' = [attempt |-> LookupAttempt,
                sleep |-> IF LookupOutcome.kind = "exception"
                          THEN 200 * (LookupAttempt + 1)
                          ELSE 400 * (LookupAttempt + 1)]
    /\ pc' = "get_backoff"
    /\ UNCHANGED <<args, ret, arg_text, scoreVars, textVars, nutrVars, analyzeVars>>

\* GET products/<barcode>/: time.sleep returns and the next iteration calls
\* requests.get
ProductLookupContinue ==
    /\ args.route = "product_lookup"
    /\ pc = "get_backoff"
    /\ heap' = [attempt |-> heap.attempt + 1, sleep |-> 0]
    /\ pc' = "get_loop"
    /\ UNCHANGED <<args, ret, arg_text, scoreVars, textVars, nutrVars, analyzeVars>>

\* what _http_get returns when the iteration under way ends the loop
LookupReturn ==
    IF LookupOutcome.kind = "response" /\ LookupOutcome.status_code = 200
    THEN Some(LookupOutcome) ELSE None

\* the product off_lookup then passes to analyze_product, if any
LookupProduct == OffProductOf(LookupReturn)

\* analyze_product raises the TypeError of coerce_nutrition
LookupRaises ==
    LookupProduct # None /\ CoerceRaises(Val(LookupProduct).nutriments)

\* GET products/<barcode>/: requests.get of the last iteration has answered
\* or raised; the view returns a response
ProductLookup ==
    /\ InGet
    /\ ~LookupBacksOff
    /\ ~LookupRaises
    /\ ret' = Some(IF LookupProduct = None
                   THEN Response([detail |-> Chars("Not found")], 404)
                   ELSE Response(analyze_product(Val(LookupProduct)), 200))
    /\ pc' = "responded"
    /\ UNCHANGED <<args, heap, arg_text, scoreVars, textVars, nutrVars, analyzeVars>>

\* GET products/<barcode>/: requests.get of the last iteration answered 200
\* and the TypeError of coerce_nutrition leaves the view
ProductLookupRaise ==
    /\ InGet
    /\ ~LookupBacksOff
    /\ LookupRaises
    /\ raised' = "TypeError"
    /\ pc' = "raised"
    /\ UNCHANGED <<callVars, arg_text, arg_nutr, ret_nutrition, scoreVars,
                   textVars, analyzeVars>>

HttpNext ==
    \/ OcrAnalyzeText
    \/ OcrAnalyzeTextRaise
    \/ OcrAnalyzeReject
    \/ OcrAnalyzeOcr
    \/ OcrAnalyze
    \/ ProductLookupBackoff
    \/ ProductLookupContinue
    \/ ProductLookup
    \/ ProductLookupRaise

SpecHttp == HttpInit /\ [][HttpNext]_vars

(***************************************************************************)
(* Claims about the HTTP surface (checked under SpecHttp)                   *)
(***************************************************************************)
\* ingredients_text is missing or blank
NoText(data) ==
    \/ data.ingredients_text = JNull
    \/ /\ data.ingredients_text.type = "str"
       /\ Strip(data.ingredients_text.s, Whitespace) = <<>>

\* one attempt of the upstream lookup fails: timeout or exception, non-200
\* status, undecodable JSON, status != 1, or no product key
AttemptFails(r) ==
    \/ r.kind = "exception"
    \/ r.status_code # 200
    \/ r.body.json = "undecodable"
    \/ r.body.status # Some(1)
    \/ r.body.product = None

\* C13: every request ends in a response, never in an exception that leaves
\* the view; analyze-by-text with missing or blank ingredients_text and
\* analyze-by-image with no uploaded file give 400; lookup-by-barcode gives
\* 404 "Not found" when the upstream lookup fails.
C13_AlwaysResponds ==
    /\ raised = ""
    /\ pc = "responded" =>
          /\ ret # None
          /\ (args.route = "ocr_analyze_text" /\ NoText(args.data))
                => Val(ret).status = 400
          /\ (args.route = "ocr_analyze"
                /\ args.files.image = None /\ args.files.file = None)
                => Val(ret).status = 400
          /\ (args.route = "product_lookup"
                /\ \A i \in DOMAIN args.attempts : AttemptFails(args.attempts[i]))
                => Val(ret) = Response([detail |-> Chars("Not found")], 404)

(***************************************************************************)
(* Calls of find_section on texts written from a few tokens, with the key  *)
(* lists of parse_ingredients and with shorter lists.                      *)
(***************************************************************************)
\* most tokens in a text
MaxTokens == 3

SectionTokens ==
    { Chars("Ingredients: "), Chars("oats"), Chars(", "), Chars("Storage"),
      Chars(" allergen"), Chars("Nutri  tion."), Chars("contains\n") }

RECURSIVE Concat(_)
Concat(parts) == IF parts = <<>> THEN <<>> ELSE Head(parts) \o Concat(Tail(parts))

SectionTexts == { Concat(parts) : parts \in ListsUpTo(SectionTokens, MaxTokens) }

SectionKeys ==
    { [start_keys |-> IngredientStartKeys, end_keys |-> IngredientEndKeys],
      [start_keys |-> IngredientStartKeys, end_keys |-> <<>>],
      [start_keys |-> <<Chars("ingredients")>>,
       end_keys |-> <<Chars("nutri tion"), Chars("storage")>>],
      [start_keys |-> <<Chars("contains"), Chars("oats")>>,
       end_keys |-> <<Chars("storage"), Chars("allergen"), Chars("oats")>>],
      \* a start key that ends with a space: the match takes the spaces after it
      [start_keys |-> <<Chars("contains ")>>, end_keys |-> <<Chars("storage")>>] }

FindInit ==
    /\ pc = "find_call"
    /\ arg_text \in SectionTexts
    /\ args \in SectionKeys
    /\ ret = None
    /\ heap = <<>>
    /\ ScoreIdle
    /\ TextIdle
    /\ NutrIdle
    /\ AnalyzeIdle

\* the call returns the section
FindSection ==
    /\ pc = "find_call"
    /\ ret' = Some(find_section(arg_text, args.start_keys, args.end_keys))
    /\ pc' = "find_done"
    /\ UNCHANGED <<args, heap, arg_text, scoreVars, textVars, nutrVars, analyzeVars>>

FindNext == FindSection

SpecFind == FindInit /\ [][FindNext]_vars

(***************************************************************************)
(* Claims about find_section (checked under SpecFind)                      *)
(***************************************************************************)
\* the places of s at which the marker occurs
Occurrences(key, s) == { i \in 1..(Len(s) + 1) : MatchEnds(KeyRe(key), s, i) # {} }

\* the end markers that occur in s, by their place in the list
Occurring(end_keys, s) == { k \in DOMAIN end_keys : Occurrences(end_keys[k], s) # {} }

\* the text after the start-marker match
AfterStart(text, start_keys) ==
    LET t == norm(text) IN Slice(t, StartMatchEnd(start_keys, t), Len(t))

\* C14: find_section ends the block at the first occurrence, after the
\* start-marker match, of the earliest-listed end marker that occurs after
\* the start, even when a later-listed marker occurs earlier; with no end
\* marker the block runs to the end of the text; with no start marker the
\* result is the empty string.
C14_EndMarkerPriority ==
    pc = "find_done" =>
        IF \A k \in DOMAIN args.start_keys :
              Occurrences(args.start_keys[k], norm(arg_text)) = {}
        THEN Val(ret) = <<>>
        ELSE LET rest == AfterStart(arg_text, args.start_keys)
                 found == Occurring(args.end_keys, rest)
             IN  IF found = {}
                 THEN Val(ret) = Strip(rest, {" ", ":", ".", "-"})
                 ELSE LET first == MinOf(Occurrences(args.end_keys[MinOf(found)], rest))
                      IN  Val(ret) = Strip(Slice(rest, 1, first - 1),
                                           {" ", ":", ".", "-"})

\* C14 witness: a later-listed end marker occurs before the earliest-listed
\* one that occurs, and the returned block runs past it.
C14_Witness ==
    /\ pc = "find_done"
    /\ \E k \in DOMAIN args.start_keys :
          Occurrences(args.start_keys[k], norm(arg_text)) # {}
    /\ LET rest == AfterStart(arg_text, args.start_keys)
           found == Occurring(args.end_keys, rest)
       IN  /\ found # {}
           /\ \E later \in found :
                 /\ later > MinOf(found)
                 /\ MinOf(Occurrences(args.end_keys[later], rest))
                       < MinOf(Occurrences(args.end_keys[MinOf(found)], rest))
                 /\ Occurrences(args.end_keys[later], Val(ret)) # {}

(***************************************************************************)
(* Claims about the nitrite cap (checked under SpecAnalyze)                *)
(***************************************************************************)
\* the numbers of the nitrite and nitrate codes
NitriteNumbers == { Chars("249"), Chars("250"), Chars("251"), Chars("252") }

\* C18: when the additives found in a label include a nitrite or nitrate
\* code (249, 250, 251 or 252, written with an E or an INS prefix), the score
\* of the product is <= 40 whatever the nutrition, the text and the beverage
\* flag.
C18_NitriteCap ==
    pc = "analyzed" =>
        LET additives == Val(ret_result).additives
        IN  (\E k \in DOMAIN additives : CodeNumber(additives[k].code) \in NitriteNumbers)
                => Val(ret_result).score <= 40

(***************************************************************************)
(* Claims about is_beverage (checked under SpecAnalyze)                    *)
(***************************************************************************)
\* the unit of a quantity: the text after its leading number and blanks
RECURSIVE UnitOf(_)
UnitOf(qty) ==
    IF qty # <<>> /\ (IsDigit(Head(qty)) \/ Head(qty) \in {" ", ".", ","})
    THEN UnitOf(Tail(qty)) ELSE qty

\* the quantity uses a volume unit (ml or l)
UsesVolumeUnit(qty) == UnitOf(Lower(qty)) \in { Chars("ml"), Chars("l") }

\* the decision order as stated: a beverage keyword in name or categories,
\* else a non-beverage-liquid keyword in name or categories, else the
\* quantity
StatedBeverage(p) ==
    LET name == Lower(p.product_name)
        cats == Lower(p.categories)
    IN  IF AnyIn(BEVERAGE_HINTS, name) \/ AnyIn(BEVERAGE_HINTS, cats) THEN TRUE
        ELSE IF AnyIn(NON_BEVERAGE_LIQUIDS, name) \/ AnyIn(NON_BEVERAGE_LIQUIDS, cats)
        THEN FALSE
        ELSE UsesVolumeUnit(p.quantity)

\* C19: is_beverage is true whenever the product name or the category string
\* contains a beverage keyword, whatever non-beverage-liquid keyword and
\* quantity there are; otherwise false on a non-beverage-liquid keyword in
\* name or category; otherwise true exactly when the quantity uses a volume
\* unit (ml or l), false for mass units or no quantity.
C19_DecisionOrder ==
    pc = "analyzed" => Val(ret_result).isBeverage = StatedBeverage(arg_product)

(***************************************************************************)
(* traffic_light_salt_from_sodium.  sodium_mg_per_100 is a whole number of *)
(* milligrams; salt_g = sodium / 1000.0 * 2.5 is kept as the whole number  *)
(* salt_g * 10000 = sodium * 25 (the float comparison gives the same band  *)
(* as the exact one on every whole number up to 200000).                   *)
(***************************************************************************)
\* mutant: the bands of a beverage are half as wide
Mutant_traffic_light_salt_BeverageBands(sodium_mg_per_100, _beverage) ==
    IF sodium_mg_per_100 = None THEN "unknown"
    ELSE LET salt == Val(sodium_mg_per_100) * 25 * (IF _beverage THEN 2 ELSE 1)
         IN  IF salt <= 3000 THEN "low"
             ELSE IF salt <= 15000 THEN "medium"
             ELSE "high"

traffic_light_salt_from_sodium(sodium_mg_per_100, _beverage) ==
    IF sodium_mg_per_100 = None THEN "unknown"
    ELSE LET salt == Val(sodium_mg_per_100) * 25
         IN  IF salt <= 3000 THEN "low"
             ELSE IF salt <= 15000 THEN "medium"
             ELSE "high"

\* largest sodium value of a call, in mg per 100 g
MaxSodiumMg == 610

\* a call, and then the call with the same sodium and the other beverage
\* flag; written holds what the first call returned
SaltInit ==
    /\ pc = "salt_call"
    /\ args \in [sodium_mg_per_100 : Opt(0..MaxSodiumMg), beverage : BOOLEAN]
    /\ ret = None
    /\ heap = <<>>
    /\ arg_text = <<>>
    /\ ScoreIdle
    /\ TextIdle
    /\ NutrIdle
    /\ AnalyzeIdle

TrafficLightSalt ==
    /\ pc = "salt_call"
    /\ ret' = Some(traffic_light_salt_from_sodium(args.sodium_mg_per_100, args.beverage))
    /\ pc' = "salt_done"
    /\ UNCHANGED <<args, heap, arg_text, scoreVars, textVars, nutrVars, analyzeVars>>

TrafficLightSaltOtherFlag ==
    /\ pc = "salt_done"
    /\ written = <<>>
    /\ written' = ret
    /\ args' = [args EXCEPT !.beverage = ~args.beverage]
    /\ ret' = Some(traffic_light_salt_from_sodium(args.sodium_mg_per_100, ~args.beverage))
    /\ UNCHANGED <<pc, heap, arg_text, scan, ret_list, scoreVars, nutrVars, analyzeVars>>

SaltNext == TrafficLightSalt \/ TrafficLightSaltOtherFlag

SpecSalt == SaltInit /\ [][SaltNext]_vars

(***************************************************************************)
(* Claims about traffic_light_salt_from_sodium (checked under SpecSalt)    *)
(***************************************************************************)
\* C20: traffic_light_salt_from_sodium returns "unknown" when sodium is
\* absent and otherwise the band of salt = sodium_mg / 1000 * 2.5 with
\* inclusive upper bounds 0.3 (low) and 1.5 (medium), else high; the result
\* is the same for beverage = true and beverage = false.
C20_SaltBands ==
    pc = "salt_done" =>
        /\ args.sodium_mg_per_100 = None => Val(ret) = "unknown"
        /\ args.sodium_mg_per_100 # None =>
              \* 2 * salt in mg = 5 * sodium in mg
              \E twice \in {5 * Val(args.sodium_mg_per_100)} :
                  /\ twice <= 600 => Val(ret) = "low"
                  /\ (twice > 600 /\ twice <= 3000) => Val(ret) = "medium"
                  /\ twice > 3000 => Val(ret) = "high"
        /\ written # <<>> => Val(written) = Val(ret)

\* C20 witness: sodium 120 mg (salt exactly 0.3 g) was banded low with both
\* beverage flags.
C20_Witness ==
    /\ pc = "salt_done"
    /\ args.sodium_mg_per_100 = Some(120)
    /\ written = Some("low")
    /\ ret = Some("low")

(***************************************************************************)
(* The additive step of compute_health_score on its own: the call of       *)
(* _additive_penalties, then s -= min(28.0, add_pen).                      *)
(***************************************************************************)
\* longest additive list of the additive step
MaxPenaltyList == 3

\* records as classify_additives writes them, one of each tier and code set
PenaltyAdditives ==
    { Additive("E102", "Tartrazine", "avoid"),
      Additive("E250", "Sodium nitrite", "avoid"),
      Additive("E320", "Butylated hydroxyanisole (BHA)", "avoid"),
      Additive("E211", "Sodium benzoate", "moderate"),
      Additive("INS621", "Monosodium glutamate (MSG)", "caution"),
      Additive("E330", "Citric acid", "generally safe"),
      Additive("E999", "Unknown additive", "unknown") }

PenaltyLists == ListsUpTo(PenaltyAdditives, MaxPenaltyList)

\* the running score s before the step: the base score of three profiles
RunningScores ==
    { BaseScore([EmptyNutrition EXCEPT !.sugar_g = g], FALSE) :
        g \in Opt({12, 30}) }

PenaltyInit ==
    /\ pc = "penalty_call"
    /\ args \in [s : RunningScores, additives : PenaltyLists]
    /\ ret = None
    /\ heap = <<>>
    /\ arg_text = <<>>
    /\ ScoreIdle
    /\ TextIdle
    /\ NutrIdle
    /\ AnalyzeIdle

\* add_pen = _additive_penalties(additives or [])
AdditivePenalties ==
    /\ pc = "penalty_call"
    /\ heap' = [add_pen |-> _additive_penalties(args.additives)]
    /\ pc' = "penalty_known"
    /\ UNCHANGED <<args, ret, arg_text, scoreVars, textVars, nutrVars, analyzeVars>>

\* s -= min(28.0, add_pen)
SubtractAdditivePenalty ==
    /\ pc = "penalty_known"
    /\ ret' = Some(AdditiveStep(args.s, args.additives))
    /\ pc' = "penalty_applied"
    /\ UNCHANGED <<args, heap, arg_text, scoreVars, textVars, nutrVars, analyzeVars>>

PenaltyNext == AdditivePenalties \/ SubtractAdditivePenalty

SpecPenalty == PenaltyInit /\ [][PenaltyNext]_vars

(***************************************************************************)
(* Claims about the additive step (checked under SpecPenalty)              *)
(***************************************************************************)
\* the penalty of one record as the tiers and code sets are listed
TierPenalty(a) ==
    CASE a.risk = Chars("avoid") -> 10
      [] a.risk = Chars("moderate") -> 5
      [] a.risk = Chars("caution") -> 4
      [] a.risk = Chars("generally safe") -> 0
      [] a.risk = Chars("unknown") -> 1

ListedPenalty(a) ==
    TierPenalty(a)
    + (IF CodeNumber(a.code) \in MSG_LIKE THEN 2 ELSE 0)
    + (IF a.code \in { Chars("E102"), Chars("E104"), Chars("E110"),
                       Chars("E122"), Chars("E124"), Chars("E129") } THEN 5 ELSE 0)
    + (IF a.code \in { Chars("E249"), Chars("E250"), Chars("E251"),
                       Chars("E252") } THEN 10 ELSE 0)
    + (IF a.code \in { Chars("E319"), Chars("E320"), Chars("E321") } THEN 8 ELSE 0)

RECURSIVE ListedTotal(_)
ListedTotal(additives) ==
    IF additives = <<>> THEN 0
    ELSE ListedPenalty(Head(additives)) + ListedTotal(Tail(additives))

\* C21: the additive step subtracts exactly min(28, T) from the running
\* score, T being the sum over the list of the tier penalty (avoid 10,
\* moderate 5, caution 4, generally safe 0, unknown 1) plus 2 for an
\* MSG-family number, 5 for a synthetic-colour code, 10 for a nitrite/nitrate
\* code and 8 for a TBHQ/BHA/BHT code; the step never lowers the score by
\* more than 28.
C21_AdditiveCap ==
    pc = "penalty_applied" =>
        /\ QSub(args.s, Val(ret)) = QInt(IntMin(28, ListedTotal(args.additives)))
        /\ QLe(QSub(args.s, QInt(28)), Val(ret))

\* C21 witness: a list whose penalties sum to more than 36 lowered a
\* fractional running score by exactly 28.
C21_Witness ==
    /\ pc = "penalty_applied"
    /\ ListedTotal(args.additives) > 36
    /\ heap.add_pen = 36
    /\ args.s.n # 0
    /\ Val(ret) = QSub(args.s, QInt(28))

(***************************************************************************)
(* summarize_pros_cons.  A sentence is a str, so a sequence of characters; *)
(* the character U+2265 of the two positive sentences is the element       *)
(* GreaterEqualSign.                                                       *)
(***************************************************************************)
GreaterEqualSign == "U+2265"

\* value_g_per_100 is a whole number of grams; 2.5, 11.25 and 22.5 are
\* compared after scaling both sides
traffic_light_sugar(value_g_per_100, beverage) ==
    IF value_g_per_100 = None THEN "unknown"
    ELSE LET v == Val(value_g_per_100)
         IN  IF beverage
             THEN IF 2 * v <= 5 THEN "low"
                  ELSE IF 4 * v <= 45 THEN "medium"
                  ELSE "high"
             ELSE IF v <= 5 THEN "low"
                  ELSE IF 2 * v <= 45 THEN "medium"
                  ELSE "high"

traffic_light_satfat(value_g_per_100, _beverage) ==
    IF value_g_per_100 = None THEN "unknown"
    ELSE LET v == Val(value_g_per_100)
         IN  IF 2 * v <= 3 THEN "low"
             ELSE IF v <= 5 THEN "medium"
             ELSE "high"

HighFiber == Chars("High in fiber (") \o <<GreaterEqualSign>> \o Chars("3g/100g)")
GoodProtein ==
    Chars("Good source of protein (") \o <<GreaterEqualSign>> \o Chars("5g/100g)")
HighSugars == Chars("High in total sugars")
HighSalt == Chars("High in salt (from sodium)")
HighSatFat == Chars("High in saturated fat")
ContainsTransFats == Chars("Contains trans fats (>0.1g/100g)")

\* f"Contains {a['name']} ({a['code']})"
AvoidSentence(a) ==
    Chars("Contains ") \o a.name \o Chars(" (") \o a.code \o Chars(")")

\* nutrition.get(f) and nutrition[f] and nutrition[f] >= least
AtLeast(nutrition, f, least) ==
    nutrition[f] # None /\ Val(nutrition[f]) # 0 /\ Val(nutrition[f]) >= least

\* the positives list before deduplication
RawPositives(nutrition) ==
    (IF AtLeast(nutrition, "fiber_g", 3) THEN <<HighFiber>> ELSE <<>>)
    \o (IF AtLeast(nutrition, "protein_g", 5) THEN <<GoodProtein>> ELSE <<>>)

\* for a in additives or []: if (a.get("risk") or "").lower() == "avoid"
RECURSIVE AvoidSentences(_)
AvoidSentences(additives) ==
    IF additives = <<>> THEN <<>>
    ELSE (IF Lower(Head(additives).risk) = Chars("avoid")
          THEN <<AvoidSentence(Head(additives))>> ELSE <<>>)
         \o AvoidSentences(Tail(additives))

\* for label, pen in ...: if pen < 0 and label not in negatives: append
RECURSIVE AppendLabels(_, _)
AppendLabels(negatives, ps) ==
    IF ps = <<>> THEN negatives
    ELSE LET label == Chars(Head(ps)[1])
             pen   == Head(ps)[2]
         IN  AppendLabels(IF pen < 0 /\ label \notin Range(negatives)
                          THEN Append(negatives, label) ELSE negatives,
                          Tail(ps))

\* the negatives list before deduplication
RawNegatives(nutrition, additives, ingredients_text, beverage) ==
    LET lights ==
            (IF traffic_light_sugar(nutrition.sugar_g, beverage) = "high"
             THEN <<HighSugars>> ELSE <<>>)
            \o (IF traffic_light_salt_from_sodium(nutrition.sodium_mg, beverage) = "high"
                THEN <<HighSalt>> ELSE <<>>)
            \o (IF traffic_light_satfat(nutrition.sat_fat_g, beverage) = "high"
                THEN <<HighSatFat>> ELSE <<>>)
        trans ==
            IF nutrition.trans_fat_g # None /\ 10 * Val(nutrition.trans_fat_g) > 1
            THEN <<ContainsTransFats>> ELSE <<>>
    IN  AppendLabels(lights \o trans \o AvoidSentences(additives),
                     _keyword_penalties(ingredients_text))

\* mutant: the list is returned as it was built
MutantDedupe_Keep(xs) == xs

RECURSIVE DedupeFrom(_, _)
DedupeFrom(xs, seen) ==
    IF xs = <<>> THEN <<>>
    ELSE IF Head(xs) \in seen THEN DedupeFrom(Tail(xs), seen)
    ELSE <<Head(xs)>> \o DedupeFrom(Tail(xs), seen \cup {Head(xs)})

\* for x in xs: if x not in seen: out.append(x); seen.add(x)
Dedupe(xs) == DedupeFrom(xs, {})

summarize_pros_cons(nutrition, additives, ingredients_text, beverage) ==
    [pos |-> Dedupe(RawPositives(nutrition)),
     neg |-> Dedupe(RawNegatives(nutrition, additives, ingredients_text, beverage))]

\* longest additive list handed to summarize_pros_cons
MaxSummaryList == 2

SummaryProfiles ==
    [energy_kj : {None}, sugar_g : Opt({12, 23}), sodium_mg : Opt({601}),
     sat_fat_g : Opt({6}), trans_fat_g : Opt({0, 1}), fiber_g : Opt({2, 3}),
     protein_g : Opt({5}), fruit_pct : {None}]

SummaryInit ==
    /\ pc = "summary_call"
    /\ args \in [nutrition : SummaryProfiles,
                 additives : ListsUpTo(SampleAdditives, MaxSummaryList),
                 ingredients_text : ScoreTexts,
                 beverage : BOOLEAN]
    /\ ret = None
    /\ heap = <<>>
    /\ arg_text = <<>>
    /\ ScoreIdle
    /\ TextIdle
    /\ NutrIdle
    /\ AnalyzeIdle

SummarizeProsCons ==
    /\ pc = "summary_call"
    /\ ret' = Some(summarize_pros_cons(args.nutrition, args.additives,
                                       args.ingredients_text, args.beverage))
    /\ pc' = "summary_done"
    /\ UNCHANGED <<args, heap, arg_text, scoreVars, textVars, nutrVars, analyzeVars>>

SummaryNext == SummarizeProsCons

SpecSummary == SummaryInit /\ [][SummaryNext]_vars

(***************************************************************************)
(* Claims about summarize_pros_cons (checked under SpecSummary)            *)
(***************************************************************************)
NoDuplicates(xs) == \A i, j \in DOMAIN xs : xs[i] = xs[j] => i = j

FirstIndex(xs, x) == CHOOSE i \in DOMAIN xs : xs[i] = x /\ \A j \in 1..(i - 1) : xs[j] # x

\* out holds the elements of raw, each once, in the order of their first
\* occurrence in raw
FirstOccurrenceOrder(out, raw) ==
    /\ Range(out) = Range(raw)
    /\ NoDuplicates(out)
    /\ \A i, j \in DOMAIN out :
          i < j => FirstIndex(raw, out[i]) < FirstIndex(raw, out[j])

\* C22: the negatives of summarize_pros_cons hold the label of every
\* keyword-penalty family matched in the ingredients text, a sentence for
\* each additive of tier "avoid", a sentence for each traffic light that is
\* "high", and the trans-fat sentence exactly when trans fat > 0.1; both
\* returned lists have no duplicates and keep first-occurrence order.
C22_ProsCons ==
    pc = "summary_done" =>
        LET n   == args.nutrition
            neg == Range(Val(ret).neg)
            kp  == _keyword_penalties(args.ingredients_text)
        IN  /\ \A k \in DOMAIN kp : Chars(kp[k][1]) \in neg
            /\ \A k \in DOMAIN args.additives :
                  args.additives[k].risk = Chars("avoid")
                      => AvoidSentence(args.additives[k]) \in neg
            /\ traffic_light_sugar(n.sugar_g, args.beverage) = "high"
                  => HighSugars \in neg
            /\ traffic_light_salt_from_sodium(n.sodium_mg, args.beverage) = "high"
                  => HighSalt \in neg
            /\ traffic_light_satfat(n.sat_fat_g, args.beverage) = "high"
                  => HighSatFat \in neg
            /\ (ContainsTransFats \in neg)
                  <=> (n.trans_fat_g # None /\ 10 * Val(n.trans_fat_g) > 1)
            /\ FirstOccurrenceOrder(Val(ret).pos, RawPositives(n))
            /\ FirstOccurrenceOrder(Val(ret).neg,
                   RawNegatives(n, args.additives, args.ingredients_text,
                                args.beverage))

\* C22 witness: the same "avoid" additive was listed twice, every traffic
\* light was high, trans fat was present and the text matched keyword
\* families; the negatives name the additive once, after the trans-fat
\* sentence and before the labels.
C22_Witness ==
    /\ pc = "summary_done"
    /\ Len(args.additives) = 2
    /\ args.additives[1] = args.additives[2]
    /\ args.additives[1].risk = Chars("avoid")
    /\ args.nutrition.trans_fat_g = Some(1)
    /\ Len(_keyword_penalties(args.ingredients_text)) >= 5
    /\ SubSeq(Val(ret).neg, 1, 5)
         = <<HighSugars, HighSalt, HighSatFat, ContainsTransFats,
             AvoidSentence(args.additives[1])>>
    /\ Val(ret).neg[6] = Chars("Palm oil")
    /\ Val(ret).pos = <<HighFiber, GoodProtein>>

(***************************************************************************)
(* Claims about the two OCR endpoints (checked under SpecHttp)             *)
(***************************************************************************)
\* the request went to one of the OCR views and was answered with a scan
ScanAnswered ==
    /\ pc = "responded"
    /\ args.route \in {"ocr_analyze_text", "ocr_analyze"}
    /\ Val(ret).status = 200

\* the score of a scan before the sparse-data guardrail and the final clamp
BeforeGuardrail(data) ==
    HardCaps(TransFatStep(KeywordStep(ProcessingStep(
                 AdditiveStep(BaseScore(data.nutrition, FALSE), data.additives),
                 data.ingredients_text), data.ingredients_text), data.nutrition),
             data.additives, data.ingredients_text)

\* C23: on analyze-by-text and analyze-by-image the nutrition profile is
\* entirely unknown, so for every recognized text the returned score lies in
\* [35, 65] and the returned grade is B, C or D, never E, A or A+.
C23_OcrScoreBand ==
    ScanAnswered =>
        LET data == Val(ret).data
        IN  /\ \A f \in DOMAIN data.nutrition : data.nutrition[f] = None
            /\ data.score \in 35..65
            /\ data.grade \in {Chars("B"), Chars("C"), Chars("D")}

\* C23 witness: a text with nitrite, colour, hydrogenated palm oil, MSG and
\* frying, whose score before the guardrail is below 35, was answered with
\* score 35 and grade D.
C23_Witness ==
    /\ ScanAnswered
    /\ Len(Val(ret).data.additives) = 2
    /\ QLt(BeforeGuardrail(Val(ret).data), QInt(10))
    /\ Val(ret).data.score = 35
    /\ Val(ret).data.grade = Chars("D")

\* a text without red flags was answered with score 65 and grade B by the
\* image view
C23_WitnessTop ==
    /\ ScanAnswered
    /\ args.route = "ocr_analyze"
    /\ Val(ret).data.score = 65
    /\ Val(ret).data.grade = Chars("B")

(***************************************************************************)
(* _http_get as a loop over for attempt in range(retries + 1), one step    *)
(* per wait: a step ends when requests.get has answered or raised, and a   *)
(* backoff is a step of its own that ends when time.sleep returns.  What   *)
(* requests.get does in an iteration is chosen when the iteration runs;    *)
(* heap.log keeps the outcomes of the attempts made so far, heap.sleep the *)
(* milliseconds of the backoff under way (0 when there is none).           *)
(***************************************************************************)
\* largest value of the parameter retries
MaxRetries == 2

\* status codes requests.get answers with
GetStatuses == {200, 301, 404} \cup RetryStatuses

GetOutcomes == {GetRaises} \cup { GetResponse(c, <<>>) : c \in GetStatuses }

\* r.status_code in (429, 500, 502, 503, 504) and attempt < retries
TransientWithAttemptsLeft(r, attempt, retries) ==
    r.status_code \in RetryStatuses /\ attempt < retries

GetInit ==
    /\ pc = "get_loop"
    /\ args \in [retries : (-1)..MaxRetries]
    /\ heap = [attempt |-> 0, log |-> <<>>, sleep |-> 0]
    /\ ret = None
    /\ arg_text = <<>>
    /\ ScoreIdle
    /\ TextIdle
    /\ NutrIdle
    /\ AnalyzeIdle

\* attempt is in range(retries + 1)
InRange == pc = "get_loop" /\ heap.attempt <= args.retries

\* requests.get has answered r and the call enters time.sleep(ms / 1000):
\* the attempt counter is not advanced yet
Sleep(r, ms) ==
    /\ heap' = [heap EXCEPT !.log = Append(heap.log, r), !.sleep = ms]
    /\ pc' = "get_backoff"
    /\ UNCHANGED <<args, ret, arg_text, scoreVars, textVars, nutrVars, analyzeVars>>

\* return value
Return(r, value) ==
    /\ ret' = value
    /\ heap' = [heap EXCEPT !.log = Append(heap.log, r)]
    /\ pc' = "get_returned"
    /\ UNCHANGED <<args, arg_text, scoreVars, textVars, nutrVars, analyzeVars>>

\* if r.status_code == 200: return r
HttpGetReturnResponse ==
    /\ InRange
    /\ \E r \in GetOutcomes :
          /\ r.kind = "response" /\ r.status_code = 200
          /\ Return(r, Some(r))

\* transient status with attempts left: time.sleep(0.4 * (attempt + 1))
HttpGetBackoff ==
    /\ InRange
    /\ \E r \in GetOutcomes :
          /\ r.kind = "response" /\ r.status_code # 200
          /\ TransientWithAttemptsLeft(r, heap.attempt, args.retries)
          /\ Sleep(r, 400 * (heap.attempt + 1))

\* any other status: return None
HttpGetReturnNone ==
    /\ InRange
    /\ \E r \in GetOutcomes :
          /\ r.kind = "response" /\ r.status_code # 200
          /\ ~TransientWithAttemptsLeft(r, heap.attempt, args.retries)
          /\ Return(r, None)

\* except Exception: if attempt < retries: time.sleep(0.2 * (attempt + 1))
HttpGetExceptBackoff ==
    /\ InRange
    /\ heap.attempt < args.retries
    /\ Sleep(GetRaises, 200 * (heap.attempt + 1))

\* time.sleep returns; continue: the next iteration
HttpGetContinue ==
    /\ pc = "get_backoff"
    /\ heap' = [heap EXCEPT !.attempt = heap.attempt + 1, !.sleep = 0]
    /\ pc' = "get_loop"
    /\ UNCHANGED <<args, ret, arg_text, scoreVars, textVars, nutrVars, analyzeVars>>

\* except Exception: return None
HttpGetExceptReturnNone ==
    /\ InRange
    /\ ~(heap.attempt < args.retries)
    /\ Return(GetRaises, None)

\* the range is exhausted: the return None after the loop
HttpGetExhausted ==
    /\ pc = "get_loop"
    /\ heap.attempt > args.retries
    /\ ret' = None
    /\ pc' = "get_returned"
    /\ UNCHANGED <<args, heap, arg_text, scoreVars, textVars, nutrVars, analyzeVars>>

GetNext ==
    \/ HttpGetReturnResponse
    \/ HttpGetBackoff
    \/ HttpGetReturnNone
    \/ HttpGetExceptBackoff
    \/ HttpGetContinue
    \/ HttpGetExceptReturnNone
    \/ HttpGetExhausted

SpecGet == GetInit /\ [][GetNext]_vars

\* requests.get returns or raises within its timeout and time.sleep ends,
\* so an iteration that can run does run
SpecGetFair == SpecGet /\ WF_vars(GetNext)

(***************************************************************************)
(* Claims about _http_get (checked under SpecGetFair)                      *)
(***************************************************************************)
\* an attempt after which a retry is allowed: an exception or a transient
\* status
Retryable(r) ==
    r.kind = "exception" \/ r.status_code \in {429, 500, 502, 503, 504}

GetReturned == pc = "get_returned"

\* what holds in every state of a call
GetSafe ==
    LET log == heap.log
        r   == args.retries
    IN  /\ raised = ""
        /\ Len(log) <= r + 1 \/ (r < 0 /\ log = <<>>)
        \* every attempt but the last was retryable and left attempts
        /\ \A i \in 1..(Len(log) - 1) : Retryable(log[i]) /\ i <= r
        \* an attempt that is not the last one of a returned call was retried
        /\ ~GetReturned => \A i \in DOMAIN log : Retryable(log[i]) /\ i <= r
        /\ GetReturned =>
              /\ ret # None =>
                    /\ log # <<>>
                    /\ log[Len(log)].kind = "response"
                    /\ log[Len(log)].status_code = 200
                    /\ Val(ret) = log[Len(log)]
                    /\ \A i \in 1..(Len(log) - 1) :
                          ~(log[i].kind = "response" /\ log[i].status_code = 200)
              /\ ret = None =>
                    \/ log = <<>> /\ r < 0
                    \/ /\ log # <<>>
                       /\ ~(log[Len(log)].kind = "response"
                              /\ log[Len(log)].status_code = 200)
                       /\ Retryable(log[Len(log)]) => Len(log) = r + 1
              \* the loop and the function on the whole list of outcomes agree
              /\ ret = _http_get(log, r)

\* C24: _http_get with retries = r terminates after at most r + 1 attempts
\* and never raises; it returns the response of the first attempt that
\* answers 200, retries only after an exception or a transient status (429,
\* 500, 502, 503, 504) and only while attempts remain, returns None at once
\* on any other status, and returns None when the last attempt fails.
C24_HttpGetTerminates == []GetSafe /\ <>GetReturned

\* C24 witness: with retries = 2 the call made three attempts, a 503, an
\* exception and a 429, and returned None.
C24_Witness ==
    /\ GetReturned
    /\ args.retries = 2
    /\ Len(heap.log) = 3
    /\ heap.log[1].status_code = 503
    /\ heap.log[2].kind = "exception"
    /\ heap.log[3].status_code = 429
    /\ ret = None

=============================================================================
